---- MODULE Spec2Model ----
(***************************************************************************)
(* A model of the DevOS daemon's job lifecycle: the risk classifier, the   *)
(* preference store, the approval manager and the job engine of the HTTP   *)
(* API.  Commands are sequences of one-character strings, so that the      *)
(* string operations of the source (strip, split, startswith, substring    *)
(* search, regular-expression search) are computed as the source computes  *)
(* them.                                                                   *)
(***************************************************************************)
EXTENDS Integers, Sequences, FiniteSets, TLC

(***************************************************************************)
(* Text helpers: Python's str operations on character sequences.           *)
(***************************************************************************)

\* str.isspace for one character
IsSpace(c) == c \in {" ", "\t", "\n"}

SetMin(S) == CHOOSE x \in S : \A y \in S : x <= y

SetMax(S) == CHOOSE x \in S : \A y \in S : x >= y

\* str.strip()
Strip(s) ==
  LET idx == {i \in 1..Len(s) : ~IsSpace(s[i])}
  IN  IF idx = {} THEN <<>> ELSE SubSeq(s, SetMin(idx), SetMax(idx))

\* p occurs in s at position i
OccursAt(s, p, i) ==
  /\ i >= 1
  /\ i + Len(p) - 1 <= Len(s)
  /\ \A k \in 1..Len(p) : s[i + k - 1] = p[k]

\* str.startswith(p)
StartsWith(s, p) == OccursAt(s, p, 1)

\* p in s
Contains(s, p) == \E i \in 1..(Len(s) + 1) : OccursAt(s, p, i)

\* s.split(p)[0] : the part of s before the first occurrence of p
BeforeFirst(s, p) ==
  IF Contains(s, p)
  THEN SubSeq(s, 1, SetMin({i \in 1..(Len(s) + 1) : OccursAt(s, p, i)}) - 1)
  ELSE s

\* s[n:]
DropFirst(s, n) == SubSeq(s, n + 1, Len(s))

\* s.split() : the whitespace-separated words of s, in order
RECURSIVE Words(_)
Words(s) ==
  LET t == Strip(s)
      sp == {i \in 1..Len(t) : IsSpace(t[i])}
  IN  IF t = <<>> THEN <<>>
      ELSE IF sp = {} THEN <<t>>
      ELSE <<SubSeq(t, 1, SetMin(sp) - 1)>> \o Words(DropFirst(t, SetMin(sp)))

\* ' '.join(words)
RECURSIVE JoinWords(_)
JoinWords(ws) ==
  IF ws = <<>> THEN <<>>
  ELSE IF Len(ws) = 1 THEN ws[1]
  ELSE ws[1] \o <<" ">> \o JoinWords(Tail(ws))

\* re.IGNORECASE folding of one character
Lower(c) ==
  CASE c = "A" -> "a" [] c = "B" -> "b" [] c = "C" -> "c" [] c = "D" -> "d" [] c = "E" -> "e" [] c = "F" -> "f"
    [] c = "G" -> "g" [] c = "H" -> "h" [] c = "I" -> "i" [] c = "J" -> "j" [] c = "K" -> "k" [] c = "L" -> "l" [] c = "M" -> "m"
    [] c = "N" -> "n" [] c = "O" -> "o" [] c = "P" -> "p" [] c = "Q" -> "q" [] c = "R" -> "r" [] c = "S" -> "s"
    [] c = "T" -> "t" [] c = "U" -> "u" [] c = "V" -> "v" [] c = "W" -> "w" [] c = "X" -> "x" [] c = "Y" -> "y" [] c = "Z" -> "z"
    [] OTHER -> c

LowerLetters ==
  {"a", "b", "c", "d", "e", "f", "g", "h", "i", "j", "k", "l", "m",
   "n", "o", "p", "q", "r", "s", "t", "u", "v", "w", "x", "y", "z"}

(***************************************************************************)
(* A regular expression is a sequence of atoms: <<"lit", c>> one literal   *)
(* character, <<"ws+">> \s+, <<"ws*">> \s*, <<"any*">> .*, <<"az">> [a-z]. *)
(* MatchAt: atoms k.. of pat match s from position i on (re.match at i);   *)
(* ic is re.IGNORECASE.                                                    *)
(***************************************************************************)
RECURSIVE MatchAt(_, _, _, _, _)
MatchAt(pat, k, s, i, ic) ==
  IF k > Len(pat) THEN TRUE
  ELSE LET a == pat[k]
           ch(j) == IF ic THEN Lower(s[j]) ELSE s[j]
       IN CASE a[1] = "lit" ->
                 /\ i <= Len(s)
                 /\ ch(i) = a[2]
                 /\ MatchAt(pat, k + 1, s, i + 1, ic)
            [] a[1] = "az" ->
                 /\ i <= Len(s)
                 /\ ch(i) \in LowerLetters
                 /\ MatchAt(pat, k + 1, s, i + 1, ic)
            [] a[1] = "ws+" ->
                 \E n \in 1..(Len(s) - i + 1) :
                    /\ \A j \in i..(i + n - 1) : IsSpace(s[j])
                    /\ MatchAt(pat, k + 1, s, i + n, ic)
            [] a[1] = "ws*" ->
                 \E n \in 0..(Len(s) - i + 1) :
                    /\ \A j \in i..(i + n - 1) : IsSpace(s[j])
                    /\ MatchAt(pat, k + 1, s, i + n, ic)
            [] a[1] = "any*" ->
                 \E n \in 0..(Len(s) - i + 1) :
                    /\ \A j \in i..(i + n - 1) : s[j] # "\n"
                    /\ MatchAt(pat, k + 1, s, i + n, ic)

\* re.search(pat, s)
Search(pat, s, ic) == \E i \in 1..(Len(s) + 1) : MatchAt(pat, 1, s, i, ic)

\* the atoms of a literal string
Lit(s) == [k \in 1..Len(s) |-> <<"lit", s[k]>>]

(***************************************************************************)
(* Risk classifier (approval/risk_assessment.py).                          *)
(***************************************************************************)

risk_levels == [safe |-> 0, low |-> 1, medium |-> 2, high |-> 3, critical |-> 4]

\* command_risks: <<command, level name>>
command_risks ==
  {    <<<<"l", "s">>, "safe">>,
    <<<<"c", "a", "t">>, "safe">>,
    <<<<"g", "r", "e", "p">>, "safe">>,
    <<<<"f", "i", "n", "d">>, "safe">>,
    <<<<"h", "e", "a", "d">>, "safe">>,
    <<<<"t", "a", "i", "l">>, "safe">>,
    <<<<"p", "w", "d">>, "safe">>,
    <<<<"w", "h", "o", "a", "m", "i">>, "safe">>,
    <<<<"d", "a", "t", "e">>, "safe">>,
    <<<<"u", "p", "t", "i", "m", "e">>, "safe">>,
    <<<<"w", "h", "i", "c", "h">>, "safe">>,
    <<<<"w", "h", "e", "r", "e", "i", "s">>, "safe">>,
    <<<<"m", "k", "d", "i", "r">>, "low">>,
    <<<<"t", "o", "u", "c", "h">>, "low">>,
    <<<<"c", "p">>, "low">>,
    <<<<"m", "v">>, "low">>,
    <<<<"g", "i", "t", " ", "s", "t", "a", "t", "u", "s">>, "low">>,
    <<<<"g", "i", "t", " ", "l", "o", "g">>, "low">>,
    <<<<"g", "i", "t", " ", "s", "h", "o", "w">>, "low">>,
    <<<<"r", "m">>, "medium">>,
    <<<<"r", "m", "d", "i", "r">>, "medium">>,
    <<<<"c", "h", "m", "o", "d">>, "medium">>,
    <<<<"c", "h", "o", "w", "n">>, "medium">>,
    <<<<"g", "i", "t", " ", "a", "d", "d">>, "medium">>,
    <<<<"g", "i", "t", " ", "c", "o", "m", "m", "i", "t">>, "medium">>,
    <<<<"g", "i", "t", " ", "p", "u", "s", "h">>, "medium">>,
    <<<<"p", "i", "p", " ", "i", "n", "s", "t", "a", "l", "l">>, "medium">>,
    <<<<"n", "p", "m", " ", "i", "n", "s", "t", "a", "l", "l">>, "medium">>,
    <<<<"s", "u", "d", "o">>, "high">>,
    <<<<"s", "u">>, "high">>,
    <<<<"p", "a", "s", "s", "w", "d">>, "high">>,
    <<<<"s", "y", "s", "t", "e", "m", "c", "t", "l">>, "high">>,
    <<<<"s", "e", "r", "v", "i", "c", "e">>, "high">>,
    <<<<"i", "p", "t", "a", "b", "l", "e", "s">>, "high">>,
    <<<<"u", "f", "w">>, "high">>,
    <<<<"d", "d">>, "critical">>,
    <<<<"m", "k", "f", "s">>, "critical">>,
    <<<<"f", "d", "i", "s", "k">>, "critical">>,
    <<<<"c", "f", "d", "i", "s", "k">>, "critical">>,
    <<<<"p", "a", "r", "t", "e", "d">>, "critical">>}

\* high_risk_patterns, searched with re.IGNORECASE
high_risk_patterns ==
  << Lit(<<"r", "m">>) \o <<<<"ws+">>>> \o Lit(<<"-", "r", "f">>) \o <<<<"ws+">>>> \o Lit(<<"/">>),
     Lit(<<"r", "m">>) \o <<<<"ws+">>>> \o Lit(<<"-", "r", "f">>) \o <<<<"ws+">>>> \o Lit(<<"*">>),
     Lit(<<">">>) \o <<<<"ws*">>>> \o Lit(<<"/", "d", "e", "v", "/", "s", "d">>) \o <<<<"az">>>>,
     Lit(<<"c", "h", "m", "o", "d">>) \o <<<<"ws+">>>> \o Lit(<<"7", "7", "7">>) \o <<<<"ws+">>>> \o Lit(<<"/">>),
     Lit(<<"c", "h", "o", "w", "n">>) \o <<<<"ws+">>, <<"any*">>, <<"ws+">>>> \o Lit(<<"/">>),
     Lit(<<"c", "u", "r", "l">>) \o <<<<"any*">>>> \o Lit(<<"|">>) \o <<<<"ws*">>>> \o Lit(<<"s", "h">>),
     Lit(<<"w", "g", "e", "t">>) \o <<<<"any*">>>> \o Lit(<<"|">>) \o <<<<"ws*">>>> \o Lit(<<"s", "h">>),
     Lit(<<":", "(", ")", "{">>) \o <<<<"ws*">>>> \o Lit(<<":", "|", ":", "&">>) \o <<<<"ws*">>>> \o Lit(<<"}">>) >>

\* r'eval\s*\$\(' , searched case-sensitively
eval_pattern == Lit(<<"e", "v", "a", "l">>) \o <<<<"ws*">>>> \o Lit(<<"$", "(">>)

critical_paths ==
  << <<"/", "b", "o", "o", "t">>,
     <<"/", "s", "y", "s">>,
     <<"/", "p", "r", "o", "c">>,
     <<"/", "d", "e", "v">>,
     <<"/", "e", "t", "c", "/", "p", "a", "s", "s", "w", "d">>,
     <<"/", "e", "t", "c", "/", "s", "h", "a", "d", "o", "w">>,
     <<"/", "e", "t", "c", "/", "s", "u", "d", "o", "e", "r", "s">>,
     <<"/", "v", "a", "r", "/", "l", "o", "g">>,
     <<"/", "e", "t", "c", "/", "s", "s", "h">>,
     <<"/", "r", "o", "o", "t">> >>

\* a context is a record; is_dict is FALSE for a context that is not a dict (None)
NoneContext == [is_dict |-> FALSE, current_directory |-> "", user |-> "", recent_commands |-> <<>>]

\* if command.startswith('sudo '): command = command[5:].strip()
strip_sudo(c) ==
  IF StartsWith(c, <<"s", "u", "d", "o", " ">>) THEN Strip(DropFirst(c, 5)) ELSE c

\* if sep in command: command = command.split(sep)[0].strip()
cut_at(c, sep) == IF Contains(c, sep) THEN Strip(BeforeFirst(c, sep)) ELSE c

\* parts = command.split(); parts[0] if parts else ''
first_word(parts) == IF parts # <<>> THEN parts[1] ELSE <<>>

\* _extract_main_command
extract_main_command(command) ==
  first_word(Words(
    cut_at(cut_at(cut_at(cut_at(strip_sudo(Strip(command)), <<"|">>), <<">">>), <<">", ">">>), <<"<">>)))

\* _assess_base_command_risk
RECURSIVE assess_base_command_risk(_)
assess_base_command_risk(command) ==
  LET main_command == extract_main_command(command)
      hits == {e \in command_risks : e[1] = main_command}
  IN  IF main_command = <<>> THEN 1
      ELSE IF hits # {} THEN risk_levels[(CHOOSE e \in hits : TRUE)[2]]
      ELSE IF StartsWith(Strip(command), <<"s", "u", "d", "o", " ">>)
           THEN LET rest == assess_base_command_risk(DropFirst(command, 5))
                IN  IF rest > 3 THEN rest ELSE 3
      ELSE 2

\* _assess_pattern_risk
assess_pattern_risk(command) ==
  LET r1 == IF \E k \in 1..Len(high_risk_patterns) :
                   Search(high_risk_patterns[k], command, TRUE)
            THEN 4 ELSE 0
      r2 == IF /\ Contains(command, <<"|">>)
               /\ \E shell \in {<<"s", "h">>, <<"b", "a", "s", "h">>, <<"z", "s", "h">>} : Contains(command, shell)
            THEN 3 ELSE 0
      r3 == IF Search(eval_pattern, command, FALSE) THEN 3 ELSE 0
  IN  SetMax({r1, r2, r3})

\* _assess_context_risk (context is a dict here)
assess_context_risk(command, context) ==
  LET r1 == IF context.current_directory \in {"/boot", "/sys", "/proc", "/dev", "/etc"}
            THEN 3 ELSE 0
      r2 == IF context.user = "root" THEN 2 ELSE 0
      recent == context.recent_commands
      last5 == SubSeq(recent, IF Len(recent) > 5 THEN Len(recent) - 4 ELSE 1, Len(recent))
      r3 == IF \E k \in 1..Len(last5) : Contains(last5[k], <<"s", "u", "d", "o">>) THEN 1 ELSE 0
  IN  SetMax({r1, r2, r3})

\* _assess_path_risk
assess_path_risk(command) ==
  LET ops == {<<"r", "m">>, <<"m", "v">>, <<"c", "p">>, <<"c", "h", "m", "o", "d">>, <<"c", "h", "o", "w", "n">>}
      hit == \E k \in 1..Len(critical_paths) : Contains(command, critical_paths[k])
  IN  IF ~hit THEN 0
      ELSE IF \E op \in ops : Contains(command, op) THEN 4 ELSE 2

\* _risk_level_name
risk_level_name(risk_score) ==
  IF \E l \in DOMAIN risk_levels : risk_levels[l] = risk_score
  THEN CHOOSE l \in DOMAIN risk_levels : risk_levels[l] = risk_score
  ELSE "unknown"

\* the assessment returned when a sub-score computation raises
assessment_failed ==
  [level |-> "medium", score |-> 2, base_command |-> "error", patterns |-> "error",
   context |-> "error", paths |-> "error", failed |-> TRUE]

\* assess_command_risk had the four sub-scores been added up
assess_command_risk_sum(command, context) ==
  IF ~context.is_dict THEN assessment_failed
  ELSE LET base_risk == assess_base_command_risk(command)
           pattern_risk == assess_pattern_risk(command)
           context_risk == assess_context_risk(command, context)
           path_risk == assess_path_risk(command)
           overall_risk == base_risk + pattern_risk + context_risk + path_risk
       IN  [level |-> risk_level_name(overall_risk), score |-> overall_risk,
            base_command |-> risk_level_name(base_risk),
            patterns |-> risk_level_name(pattern_risk),
            context |-> risk_level_name(context_risk),
            paths |-> risk_level_name(path_risk), failed |-> FALSE]

\* assess_command_risk: context.get raises when the context is not a dict
assess_command_risk(command, context) ==
  IF ~context.is_dict THEN assessment_failed
  ELSE LET base_risk == assess_base_command_risk(command)
           pattern_risk == assess_pattern_risk(command)
           context_risk == assess_context_risk(command, context)
           path_risk == assess_path_risk(command)
           overall_risk == SetMax({base_risk, pattern_risk, context_risk, path_risk})
       IN  [level |-> risk_level_name(overall_risk), score |-> overall_risk,
            base_command |-> risk_level_name(base_risk),
            patterns |-> risk_level_name(pattern_risk),
            context |-> risk_level_name(context_risk),
            paths |-> risk_level_name(path_risk), failed |-> FALSE]

(***************************************************************************)
(* Preference store (approval/preferences.py).  A store is the record      *)
(* [preferences, command_patterns, approval_history]; dicts are functions  *)
(* whose DOMAIN is the set of keys.                                        *)
(***************************************************************************)

\* d[k] = v on a dict
Put(d, k, v) == [x \in (DOMAIN d) \cup {k} |-> IF x = k THEN v ELSE d[x]]

\* d.get(k, default)
Get(d, k, default) == IF k \in DOMAIN d THEN d[k] ELSE default

EmptyDict == <<>>

EmptyStore ==
  [preferences |-> EmptyDict, command_patterns |-> EmptyDict, approval_history |-> <<>>]

\* a user id that is not hashable (a list): every dict lookup with it raises
UnhashableUser == "[]"

\* _hash_command: the SHA-256 fingerprint of the whitespace-normalised command,
\* represented by the normalised text it is computed from
hash_command(command) == JoinWords(Words(command))

\* _extract_command_args
extract_command_args(command) ==
  LET c0 == Strip(command)
      c1 == IF StartsWith(c0, <<"s", "u", "d", "o", " ">>) THEN Strip(DropFirst(c0, 5)) ELSE c0
      parts == Words(c1)
  IN  IF Len(parts) > 1 THEN Tail(parts) ELSE <<>>

\* the result of a lookup: None, a stored fingerprint entry, or a pattern verdict
NoPreference ==
  [present |-> FALSE, always_approve |-> FALSE, always_deny |-> FALSE,
   exact |-> FALSE, approved |-> FALSE]

MinExamples == 3

\* _find_pattern_match had it asked for more than three examples
find_pattern_match_more_examples(store, user_id, command) ==
  IF user_id \notin DOMAIN store.command_patterns THEN NoPreference
  ELSE LET user_patterns == store.command_patterns[user_id]
           main_command == extract_main_command(command)
       IN  IF main_command \notin DOMAIN user_patterns THEN NoPreference
           ELSE LET pattern_data == user_patterns[main_command]
                IN  IF pattern_data.total <= MinExamples THEN NoPreference
                    ELSE IF 10 * pattern_data.approved >= 8 * pattern_data.total
                         THEN [NoPreference EXCEPT !.present = TRUE, !.always_approve = TRUE]
                    ELSE IF 10 * pattern_data.approved <= 2 * pattern_data.total
                         THEN [NoPreference EXCEPT !.present = TRUE, !.always_deny = TRUE]
                    ELSE NoPreference

\* _find_pattern_match
find_pattern_match(store, user_id, command) ==
  IF user_id \notin DOMAIN store.command_patterns THEN NoPreference
  ELSE LET user_patterns == store.command_patterns[user_id]
           main_command == extract_main_command(command)
       IN  IF main_command \notin DOMAIN user_patterns THEN NoPreference
           ELSE LET pattern_data == user_patterns[main_command]
                IN  IF pattern_data.total < MinExamples THEN NoPreference
                    ELSE IF 10 * pattern_data.approved >= 8 * pattern_data.total
                         THEN [NoPreference EXCEPT !.present = TRUE, !.always_approve = TRUE]
                    ELSE IF 10 * pattern_data.approved <= 2 * pattern_data.total
                         THEN [NoPreference EXCEPT !.present = TRUE, !.always_deny = TRUE]
                    ELSE NoPreference

\* the 'confidence' of the verdict of _find_pattern_match, as the fraction
\* <<numerator, denominator>>: approval_rate of an always_approve verdict,
\* 1 - approval_rate of an always_deny verdict; <<0, 1>> when there is none
pattern_confidence(store, user_id, command) ==
  LET verdict == find_pattern_match(store, user_id, command)
  IN  IF ~verdict.present THEN <<0, 1>>
      ELSE LET pattern_data == store.command_patterns[user_id][extract_main_command(command)]
           IN  IF verdict.always_approve
               THEN <<pattern_data.approved, pattern_data.total>>
               ELSE <<pattern_data.total - pattern_data.approved, pattern_data.total>>

\* get_command_preference: an exception inside is caught and None returned
get_command_preference(store, user_id, command) ==
  IF user_id = UnhashableUser THEN NoPreference
  ELSE LET user_prefs == Get(store.preferences, user_id, EmptyDict)
           command_hash == hash_command(command)
       IN  IF command_hash \in DOMAIN user_prefs
           THEN [NoPreference EXCEPT !.present = TRUE, !.exact = TRUE,
                                     !.approved = user_prefs[command_hash].approved]
           ELSE find_pattern_match(store, user_id, command)

\* one counter update of _learn_command_pattern
bump_pattern(user_patterns, key, approved) ==
  LET old == Get(user_patterns, key, [approved |-> 0, rejected |-> 0, total |-> 0])
  IN  Put(user_patterns, key,
          [approved |-> old.approved + (IF approved THEN 1 ELSE 0),
           rejected |-> old.rejected + (IF approved THEN 0 ELSE 1),
           total |-> old.total + 1])

\* the loop of _learn_command_pattern over the arguments
RECURSIVE learn_flags(_, _, _, _)
learn_flags(user_patterns, main_command, args, approved) ==
  IF args = <<>> THEN user_patterns
  ELSE LET arg == Head(args)
           next == IF StartsWith(arg, <<"-">>)
                   THEN bump_pattern(user_patterns, main_command \o <<"_", "f", "l", "a", "g", "_">> \o arg, approved)
                   ELSE user_patterns
       IN  learn_flags(next, main_command, Tail(args), approved)

\* _learn_command_pattern
learn_command_pattern(command_patterns, user_id, command, approved) ==
  LET main_command == extract_main_command(command)
      command_args == extract_command_args(command)
      user_patterns == Get(command_patterns, user_id, EmptyDict)
      p1 == bump_pattern(user_patterns, main_command, approved)
  IN  Put(command_patterns, user_id, learn_flags(p1, main_command, command_args, approved))

\* UserPreferences.learn_preference
store_learn_preference(store, user_id, command, approved) ==
  LET user_prefs == Get(store.preferences, user_id, EmptyDict)
      command_hash == hash_command(command)
      old_count == IF command_hash \in DOMAIN user_prefs
                   THEN user_prefs[command_hash].usage_count ELSE 0
      entry == [command |-> command, approved |-> approved, usage_count |-> old_count + 1]
  IN  [preferences |-> Put(store.preferences, user_id, Put(user_prefs, command_hash, entry)),
       command_patterns |->
          learn_command_pattern(store.command_patterns, user_id, command, approved),
       approval_history |->
          Append(store.approval_history,
                 [user_id |-> user_id, command |-> command, approved |-> approved])]

\* str(s): the text of a character sequence, as the key of a dict of texts
RECURSIVE Text(_)
Text(s) == IF s = <<>> THEN "" ELSE s[1] \o Text(Tail(s))

\* UserPreferences.learn_preference with a command that is a dict: lines 97-98
\* run, then _hash_command raises on command.split() and the handler logs it
store_learn_preference_dict(store, user_id) ==
  [store EXCEPT !.preferences =
                  IF user_id \in DOMAIN @ THEN @ ELSE Put(@, user_id, EmptyDict)]


(***************************************************************************)
(* The commands and contexts of the model.                                 *)
(***************************************************************************)

cmd_ls == <<"l", "s", " ", "-", "l", "a">>

cmd_rm == <<"r", "m", " ", "f", "i", "l", "e", ".", "t", "x", "t">>

cmd_rm_pipe == <<"r", "m", " ", "f", " ", "|", " ", "s", "h">>

cmd_rm_root == <<"r", "m", " ", "-", "r", "f", " ", "/">>

cmd_rm_other == <<"r", "m", " ", "a", ".", "t", "x", "t">>

cmd_ls_tmp == <<"l", "s", " ", "/", "t", "m", "p">>

Commands == {cmd_ls, cmd_rm, cmd_rm_pipe, cmd_rm_root}

\* the commands submitted to the API, and the users submitting them
EngineCommands == {cmd_ls, cmd_rm}

EngineUsers == {"u1"}

\* the commands approval is requested for
RequestCommands == {cmd_rm, cmd_rm_root}

MaxHistory == 5

\* the context the API hands over: SystemContext.__dict__ has none of the keys
\* the classifier reads, so every read yields its default
ApiContext ==
  [is_dict |-> TRUE, current_directory |-> "", user |-> "None", recent_commands |-> <<>>]

RootContext ==
  [is_dict |-> TRUE, current_directory |-> "/etc", user |-> "root", recent_commands |-> <<>>]

Contexts == {ApiContext, RootContext, NoneContext}

(***************************************************************************)
(* Approval manager (approval/manager.py).                                 *)
(***************************************************************************)

\* the assessments of the model's commands, computed once
RiskTable ==
  [c \in Commands \cup {cmd_rm_other, cmd_ls_tmp}, x \in Contexts |-> assess_command_risk(c, x)]

\* risk_assessment.assess_command_risk as the manager calls it
risk_assessment(command, context) ==
  IF <<command, context>> \in DOMAIN RiskTable
  THEN RiskTable[command, context]
  ELSE assess_command_risk(command, context)

\* requires_approval without the risk check of line 72: an always_approve
\* preference decides alone
approval_decision_trusting(auto_approve_safe_, level, user_pref) ==
  IF auto_approve_safe_ /\ level = "safe"
  THEN (IF user_pref.present /\ user_pref.always_deny THEN TRUE ELSE FALSE)
  ELSE IF user_pref.present /\ user_pref.always_approve
       THEN FALSE
  ELSE level # "safe"

\* the decision of requires_approval on an assessed level and a looked-up preference
approval_decision(auto_approve_safe_, level, user_pref) ==
  IF auto_approve_safe_ /\ level = "safe"
  THEN (IF user_pref.present /\ user_pref.always_deny THEN TRUE ELSE FALSE)
  ELSE IF user_pref.present /\ user_pref.always_approve
       THEN (IF level \in {"high", "critical"} THEN TRUE ELSE FALSE)
  ELSE level # "safe"

\* requires_approval
requires_approval(auto_approve_safe_, store, command, context, user_id) ==
  LET risk_level == risk_assessment(command, context)
      user_pref == get_command_preference(store, user_id, command)
  IN  approval_decision(auto_approve_safe_, risk_level.level, user_pref)

(***************************************************************************)
(* Command validator (executor/validators.py), configured as the daemon    *)
(* configures it: CommandExecutor(config.security_config).                 *)
(***************************************************************************)

\* str.lower() and str.upper()
lower(s) == [k \in 1..Len(s) |-> Lower(s[k])]

Upper(c) ==
  CASE c = "a" -> "A" [] c = "b" -> "B" [] c = "c" -> "C" [] c = "d" -> "D" [] c = "e" -> "E" [] c = "f" -> "F"
    [] c = "g" -> "G" [] c = "h" -> "H" [] c = "i" -> "I" [] c = "j" -> "J" [] c = "k" -> "K" [] c = "l" -> "L" [] c = "m" -> "M"
    [] c = "n" -> "N" [] c = "o" -> "O" [] c = "p" -> "P" [] c = "q" -> "Q" [] c = "r" -> "R" [] c = "s" -> "S"
    [] c = "t" -> "T" [] c = "u" -> "U" [] c = "v" -> "V" [] c = "w" -> "W" [] c = "x" -> "X" [] c = "y" -> "Y" [] c = "z" -> "Z"
    [] OTHER -> c

upper(s) == [k \in 1..Len(s) |-> Upper(s[k])]

\* security_config['allowed_commands']
allowed_commands ==
  { <<"l", "s">>,
    <<"c", "p">>,
    <<"m", "v">>,
    <<"m", "k", "d", "i", "r">>,
    <<"g", "i", "t">>,
    <<"n", "p", "m">>,
    <<"p", "i", "p">>,
    <<"d", "o", "c", "k", "e", "r">> }

\* security_config['blocked_commands']
blocked_commands ==
  { <<"r", "m", " ", "-", "r", "f", " ", "/">>,
    <<"m", "k", "f", "s">>,
    <<"d", "d">> }

\* CommandValidator.dangerous_patterns, searched with re.IGNORECASE
dangerous_patterns ==
  << Lit(<<"r", "m">>) \o <<<<"ws+">>>> \o Lit(<<"-", "r", "f">>) \o <<<<"ws+">>>> \o Lit(<<"/">>),
     Lit(<<":", "(", ")", "{">>) \o <<<<"ws*">>>> \o Lit(<<":", "|", ":", "&">>) \o <<<<"ws*">>>> \o Lit(<<"}">>),
     Lit(<<"m", "k", "f", "s", ".">>),
     Lit(<<"d", "d">>) \o <<<<"ws+">>>> \o Lit(<<"i", "f", "=", "/", "d", "e", "v", "/", "z", "e", "r", "o">>),
     Lit(<<">", "/", "d", "e", "v", "/", "s", "d">>) \o <<<<"az">>>>,
     Lit(<<"c", "h", "m", "o", "d">>) \o <<<<"ws+">>>> \o Lit(<<"7", "7", "7">>) \o <<<<"ws+">>>> \o Lit(<<"/">>),
     Lit(<<"c", "u", "r", "l">>) \o <<<<"any*">>>> \o Lit(<<"|">>) \o <<<<"ws*">>>> \o Lit(<<"s", "h">>),
     Lit(<<"w", "g", "e", "t">>) \o <<<<"any*">>>> \o Lit(<<"|">>) \o <<<<"ws*">>>> \o Lit(<<"s", "h">>),
     Lit(<<"e", "v", "a", "l">>) \o <<<<"ws*">>>> \o Lit(<<"$", "(">>) >>

\* CommandValidator.protected_paths
protected_paths ==
  { <<"/", "e", "t", "c", "/", "p", "a", "s", "s", "w", "d">>,
    <<"/", "e", "t", "c", "/", "s", "h", "a", "d", "o", "w">>,
    <<"/", "e", "t", "c", "/", "s", "u", "d", "o", "e", "r", "s">>,
    <<"/", "b", "o", "o", "t">>,
    <<"/", "s", "y", "s">>,
    <<"/", "p", "r", "o", "c">>,
    <<"/", "d", "e", "v">>,
    <<"/", "v", "a", "r", "/", "l", "o", "g">>,
    <<"/", "e", "t", "c", "/", "s", "s", "h">>,
    <<"/", "r", "o", "o", "t">> }

\* a plan step: command_info with its type, command and safety_level
Step(type, command, safety_level) ==
  [type |-> type, command |-> command, safety_level |-> safety_level]

\* the dict a validation returns: valid, reason, severity
Valid(reason) == [valid |-> TRUE, reason |-> reason, severity |-> "none"]

Invalid(reason, severity) == [valid |-> FALSE, reason |-> reason, severity |-> severity]

\* CommandValidator._extract_main_command
validator_extract_main_command(command) ==
  first_word(Words(cut_at(cut_at(cut_at(cut_at(strip_sudo(Strip(command)), <<"|">>), <<">">>),
                                 <<">", ">">>), <<"<">>)))

\* _check_protected_paths
check_protected_paths(command) == \E p \in protected_paths : Contains(command, p)

extreme_risk_patterns ==
  << Lit(<<"r", "m">>) \o <<<<"ws+">>>> \o Lit(<<"-", "r", "f">>) \o <<<<"ws+">>>> \o Lit(<<"/">>),
     Lit(<<"r", "m">>) \o <<<<"ws+">>>> \o Lit(<<"-", "r", "f">>) \o <<<<"ws+">>>> \o Lit(<<"*">>),
     Lit(<<"r", "m">>) \o <<<<"ws+">>>> \o Lit(<<"-", "r", "f">>) \o <<<<"ws+">>>> \o Lit(<<"~">>),
     Lit(<<"m", "k", "f", "s">>),
     Lit(<<"d", "d">>) \o <<<<"ws+">>>> \o Lit(<<"i", "f", "=", "/", "d", "e", "v", "/", "z", "e", "r", "o">>) \o <<<<"ws+">>>> \o Lit(<<"o", "f", "=", "/">>),
     Lit(<<"c", "h", "m", "o", "d">>) \o <<<<"ws+">>>> \o Lit(<<"0", "0", "0">>) \o <<<<"ws+">>>> \o Lit(<<"/">>),
     Lit(<<"c", "h", "o", "w", "n">>) \o <<<<"ws+">>>> \o Lit(<<"r", "o", "o", "t", ":", "r", "o", "o", "t">>) \o <<<<"ws+">>>> \o Lit(<<"/">>) >>

destructive_high_risk_patterns ==
  << Lit(<<"r", "m">>) \o <<<<"ws+">>>> \o Lit(<<"-", "r", "f">>),
     Lit(<<"r", "m">>) \o <<<<"ws+">>>> \o Lit(<<"-", "r">>) \o <<<<"ws+">>>> \o Lit(<<"*">>),
     Lit(<<"c", "h", "m", "o", "d">>) \o <<<<"ws+">>>> \o Lit(<<"7", "7", "7">>),
     Lit(<<"c", "h", "o", "w", "n">>) \o <<<<"ws+">>>> \o <<<<"any*">>>> \o <<<<"ws+">>>> \o Lit(<<"/">>) >>

\* _assess_destructive_risk
assess_destructive_risk(command) ==
  IF \E k \in 1..Len(extreme_risk_patterns) : Search(extreme_risk_patterns[k], command, TRUE)
  THEN "extreme"
  ELSE IF \E k \in 1..Len(destructive_high_risk_patterns) :
             Search(destructive_high_risk_patterns[k], command, TRUE)
       THEN "high"
       ELSE "moderate"

\* _validate_bash_command had it consulted the allow list first
validate_bash_command_allowlist_first(command, safety_level) ==
  IF /\ validator_extract_main_command(command) # <<>>
     /\ validator_extract_main_command(command) \notin allowed_commands
  THEN Invalid("Command not in allowlist", "medium")
  ELSE IF \E b \in blocked_commands : Contains(lower(command), lower(b))
  THEN Invalid("Blocked command pattern", "high")
  ELSE IF \E k \in 1..Len(dangerous_patterns) : Search(dangerous_patterns[k], command, TRUE)
  THEN Invalid("Dangerous command pattern detected", "high")
  ELSE IF check_protected_paths(command) /\ safety_level # "destructive"
  THEN Invalid("Access to protected path", "high")
  ELSE IF safety_level = "destructive" /\ assess_destructive_risk(command) = "extreme"
  THEN Invalid("Extremely destructive command", "critical")
  ELSE Valid("Command passed security validation")

\* _validate_bash_command
validate_bash_command(command, safety_level) ==
  IF \E b \in blocked_commands : Contains(lower(command), lower(b))
  THEN Invalid("Blocked command pattern", "high")
  ELSE IF \E k \in 1..Len(dangerous_patterns) : Search(dangerous_patterns[k], command, TRUE)
  THEN Invalid("Dangerous command pattern detected", "high")
  ELSE IF /\ validator_extract_main_command(command) # <<>>
          /\ validator_extract_main_command(command) \notin allowed_commands
  THEN Invalid("Command not in allowlist", "medium")
  ELSE IF check_protected_paths(command) /\ safety_level # "destructive"
  THEN Invalid("Access to protected path", "high")
  ELSE IF safety_level = "destructive" /\ assess_destructive_risk(command) = "extreme"
  THEN Invalid("Extremely destructive command", "critical")
  ELSE Valid("Command passed security validation")

dangerous_python ==
  { <<"i", "m", "p", "o", "r", "t", " ", "o", "s">>,
    <<"i", "m", "p", "o", "r", "t", " ", "s", "u", "b", "p", "r", "o", "c", "e", "s", "s">>,
    <<"i", "m", "p", "o", "r", "t", " ", "s", "y", "s">>,
    <<"e", "v", "a", "l", "(">>,
    <<"e", "x", "e", "c", "(">>,
    <<"_", "_", "i", "m", "p", "o", "r", "t", "_", "_">>,
    <<"o", "p", "e", "n", "(">>,
    <<"f", "i", "l", "e", "(">>,
    <<"i", "n", "p", "u", "t", "(">>,
    <<"r", "a", "w", "_", "i", "n", "p", "u", "t", "(">>,
    <<"c", "o", "m", "p", "i", "l", "e", "(">> }

\* _validate_python_command
validate_python_command(command, safety_level) ==
  IF (\E d \in dangerous_python : Contains(command, d)) /\ safety_level # "destructive"
  THEN Invalid("Potentially dangerous Python operation", "medium")
  ELSE Valid("Python command passed validation")

dangerous_sql ==
  { <<"D", "R", "O", "P", " ", "T", "A", "B", "L", "E">>,
    <<"D", "R", "O", "P", " ", "D", "A", "T", "A", "B", "A", "S", "E">>,
    <<"D", "E", "L", "E", "T", "E", " ", "F", "R", "O", "M">>,
    <<"T", "R", "U", "N", "C", "A", "T", "E">>,
    <<"A", "L", "T", "E", "R", " ", "T", "A", "B", "L", "E">>,
    <<"U", "P", "D", "A", "T", "E", " ">>,
    <<"I", "N", "S", "E", "R", "T", " ", "I", "N", "T", "O">>,
    <<"C", "R", "E", "A", "T", "E", " ", "U", "S", "E", "R">>,
    <<"G", "R", "A", "N", "T", " ", "A", "L", "L">> }

\* _validate_sql_command
validate_sql_command(command, safety_level) ==
  IF (\E d \in dangerous_sql : Contains(upper(command), d)) /\ safety_level # "destructive"
  THEN Invalid("Potentially destructive SQL operation", "high")
  ELSE Valid("SQL command passed validation")

\* validate_command
validate_command(command_info) ==
  IF Strip(command_info.command) = <<>> THEN Invalid("Empty command", "low")
  ELSE IF command_info.type = "bash"
  THEN validate_bash_command(command_info.command, command_info.safety_level)
  ELSE IF command_info.type = "python"
  THEN validate_python_command(command_info.command, command_info.safety_level)
  ELSE IF command_info.type = "sql"
  THEN validate_sql_command(command_info.command, command_info.safety_level)
  ELSE Invalid("Unsupported command type", "medium")

(***************************************************************************)
(* Command executor (executor/sandbox.py): the parts that are functions.   *)
(***************************************************************************)

\* the substrings _apply_sandbox_restrictions refuses
sandbox_dangerous_patterns ==
  { <<"r", "m", " ", "-", "r", "f", " ", "/">>,
    <<"m", "k", "f", "s">>,
    <<"d", "d", " ", "i", "f", "=">>,
    <<"c", "h", "m", "o", "d", " ", "7", "7", "7">>,
    <<"c", "h", "o", "w", "n", " ", "r", "o", "o", "t">>,
    <<"s", "u", "d", "o", " ", "r", "m">>,
    <<"s", "u", "d", "o", " ", "d", "d">> }

\* str.replace(old, new, 1)
ReplaceFirst(s, old, new) ==
  IF ~Contains(s, old) THEN s
  ELSE BeforeFirst(s, old) \o new \o DropFirst(s, Len(BeforeFirst(s, old)) + Len(old))

\* _apply_sandbox_restrictions: raises ValueError or returns the command to run
apply_sandbox_restrictions(command) ==
  IF \E p \in sandbox_dangerous_patterns : Contains(lower(command), p)
  THEN [raised |-> TRUE, command |-> command]
  ELSE IF StartsWith(Strip(command), <<"r", "m", " ">>)
  THEN [raised |-> FALSE, command |-> ReplaceFirst(command, <<"r", "m", " ">>, <<"r", "m", " ", "-", "i", " ">>)]
  ELSE [raised |-> FALSE, command |-> command]

\* CommandResult (daemon/models.py): the fields the callers read
CommandResult(success, exit_code, error) ==
  [success |-> success, exit_code |-> exit_code, error |-> error]

\* no CommandResult yet
NoResult == CommandResult(FALSE, -1, "None")

\* what execute knows of one step of the plan: the validation verdict, the
\* subprocess spawned for it and the command it was spawned with, and the
\* result of _execute_single_command once it has been collected
NewStepState ==
  [validated |-> "none", proc |-> "none", spawned |-> <<>>, result |-> NoResult,
   executed |-> FALSE]

\* the steps a plan is made of
step_ls == Step("bash", <<"l", "s", " ", "-", "l", "a">>, "safe")

step_rm == Step("bash", <<"r", "m", " ", "f", "i", "l", "e", ".", "t", "x", "t">>, "safe")

step_mv == Step("bash", <<"m", "v", " ", "a", " ", "b">>, "destructive")

step_sudo_rm == Step("bash", <<"l", "s", " ", "&", "&", " ", "s", "u", "d", "o", " ", "r", "m", " ", "x">>, "safe")

step_python == Step("python", <<"p", "r", "i", "n", "t", "(", "1", ")">>, "safe")

step_sql == Step("sql", <<"S", "E", "L", "E", "C", "T", " ", "1">>, "safe")

step_powershell == Step("powershell", <<"d", "i", "r">>, "safe")

StepPool == {step_ls, step_rm, step_mv, step_sudo_rm, step_python, step_sql, step_powershell}

MaxPlanLen == 2

\* llm_response['commands']: the plans the model may return
Plans == UNION {[1..n -> StepPool] : n \in 0..MaxPlanLen}

\* validate_command on the steps of the pool
ValidationTable == [s \in StepPool |-> validate_command(s)]

\* _apply_sandbox_restrictions on the commands of the pool
SandboxTable == [s \in StepPool |-> apply_sandbox_restrictions(s.command)]

(***************************************************************************)
(* Job model (daemon/models.py): a Job is a record; its methods return the *)
(* updated record.  updated_at counts the readings of the clock stored in  *)
(* it: a later reading is a larger number.                                 *)
(***************************************************************************)

NewJob(command, user_id) ==
  [command |-> command, user_id |-> user_id, status |-> "pending", progress |-> 0,
   result |-> "None", error |-> "None", logs |-> <<>>, updated_at |-> 0,
   tokens_consumed |-> 0, requires_approval |-> FALSE, approved_by |-> "None",
   created_at |-> 0]

\* Job.add_log
add_log(job, level, kind, status, progress, message) ==
  [job EXCEPT !.logs = Append(@, [level |-> level, kind |-> kind, status |-> status,
                                  progress |-> progress, message |-> message]),
              !.updated_at = @ + 1]

\* Job.update_progress
update_progress(job, progress, message) ==
  LET clamped == IF progress > 100 THEN 100 ELSE IF progress < 0 THEN 0 ELSE progress
      j1 == [job EXCEPT !.progress = clamped, !.updated_at = @ + 1]
  IN  IF message # "" THEN add_log(j1, "INFO", "progress", "", progress, message) ELSE j1

\* Job.set_status
set_status(job, status, message) ==
  LET j1 == [job EXCEPT !.status = status, !.updated_at = @ + 1]
  IN  IF message # "" THEN add_log(j1, "INFO", "status", status, 0, message) ELSE j1

(***************************************************************************)
(* The state.                                                              *)
(***************************************************************************)

VARIABLES
  auto_approve_safe,   \* ApprovalManager.auto_approve_safe
  learn_preferences,   \* ApprovalManager.learn_preferences
  user_preferences,    \* ApprovalManager.user_preferences: the preference store
  pending_approvals,   \* ApprovalManager.pending_approvals: id -> approval_data
  timers,              \* the _cleanup_expired_approval tasks, in order of creation
  now,                 \* the clock (datetime.utcnow), in ticks
  decisions,           \* history: id -> the decisions applied to it, in order
  last_call,           \* the last approval-manager call and what it returned
  jobs,                \* api.py jobs: the registry, in order of creation
  tasks,               \* the execute_command background tasks, in order of creation
  reqs,                \* the approve requests, in order of arrival
  cur,                 \* the coroutine that holds the event loop, or <<"idle">>
  http_response,       \* the response of the approve endpoint sent in the last step, if any
  events,              \* per job, the job_update messages broadcast
  sandbox_enabled,     \* CommandExecutor.sandbox_enabled
  run,                 \* the call of CommandExecutor.execute: its locals and subprocesses
  call,                \* the last call of a function of the daemon and what it returned
  preferences_file,    \* UserPreferences.preferences_file: the document on disk
  export_file          \* the file export_preferences wrote

vars ==
  <<auto_approve_safe, learn_preferences, user_preferences, pending_approvals, timers,
    now, decisions, last_call, jobs, tasks, reqs, cur, http_response, events,
    sandbox_enabled, run, call, preferences_file, export_file>>

manager_vars == <<pending_approvals, timers, now, decisions, last_call>>

engine_vars == <<jobs, tasks, reqs, cur, http_response, events>>

config_vars == <<auto_approve_safe, learn_preferences>>

executor_vars == <<sandbox_enabled, run>>

function_vars == <<call>>

disk_vars == <<preferences_file, export_file>>

(***************************************************************************)
(* Bounds and inputs.                                                      *)
(***************************************************************************)

MaxJobs == 2

MaxRequests == 2

MaxApprovals == 2

MaxTime == 3

\* approval_timeout, in ticks
ApprovalTimeout == 2

Users == {"u1", "u2"}

\* store after n decisions on the same command
RECURSIVE Learned(_, _, _, _, _)
Learned(store, user_id, command, approved, n) ==
  IF n = 0 THEN store
  ELSE Learned(store_learn_preference(store, user_id, command, approved),
               user_id, command, approved, n - 1)

\* the preference files the daemon may start from (UserPreferences.load)
LoadedStores ==
  {EmptyStore,
   Learned(EmptyStore, "u1", cmd_rm_other, TRUE, MinExamples),
   Learned(EmptyStore, "u1", cmd_ls_tmp, FALSE, MinExamples)}

\* what an approval-manager call returned
NoCall ==
  [op |-> "none", id |-> <<>>, ok |-> FALSE, detail |-> "None", listed |-> {},
   command |-> <<>>, context |-> NoneContext, user_id |-> "None", at |-> 0]

\* no call of CommandExecutor.execute has been made
NoRun ==
  [task |-> 0, plan |-> <<>>, i |-> 0, pc |-> "idle", overall_success |-> TRUE,
   steps |-> <<>>, result |-> NoResult]

\* no assessment
NoReport ==
  [level |-> "None", score |-> 0, base_command |-> "None", patterns |-> "None",
   context |-> "None", paths |-> "None", failed |-> FALSE]

\* ModelRouter.config without a default_model key
NoDefaultModel == [has_default |-> FALSE, default_model |-> "None"]

\* no function has been called; learned is the number of decisions the store
\* had learned when the function was called
NoFnCall ==
  [op |-> "none", command |-> <<>>, context |-> NoneContext, user_id |-> "None",
   config |-> NoDefaultModel, large_context |-> FALSE, text |-> <<>>, report |-> NoReport, pref |-> NoPreference,
   confidence |-> <<0, 1>>, learned |-> 0, result |-> FALSE, score |-> 0,
   model |-> "None", plan |-> <<>>, type |-> "None", safety_level |-> "None",
   validation |-> [valid |-> FALSE, reason |-> "None", severity |-> "None"]]

\* no file on disk; state is "absent", "partial" (truncated or partly written)
\* or "complete" (a whole JSON document, doc); open: save holds it open for writing
NoFile == [state |-> "absent", doc |-> EmptyStore, open |-> FALSE]

\* export_preferences has written nothing
NoExport == [written |-> FALSE, user_id |-> "None", preferences |-> EmptyDict,
             patterns |-> EmptyDict]

Init ==
  /\ auto_approve_safe \in BOOLEAN
  /\ learn_preferences \in BOOLEAN
  /\ user_preferences \in LoadedStores
  /\ pending_approvals = EmptyDict
  /\ timers = <<>>
  /\ now = 0
  /\ decisions = EmptyDict
  /\ last_call = NoCall
  /\ jobs = <<>>
  /\ tasks = <<>>
  /\ reqs = <<>>
  /\ cur = <<"idle">>
  /\ http_response = [job |-> 0, code |-> 0, detail |-> "None"]
  /\ events = <<>>
  /\ sandbox_enabled \in BOOLEAN
  /\ run = NoRun
  /\ call = NoFnCall
  /\ preferences_file = NoFile
  /\ export_file = NoExport

\* a fresh installation: no preferences file to load, auto_approve_safe and
\* sandbox_enabled at their defaults
InitFresh ==
  /\ Init
  /\ auto_approve_safe = TRUE
  /\ user_preferences = EmptyStore
  /\ sandbox_enabled = TRUE


(***************************************************************************)
(* Job engine (daemon/api.py).  The server runs its coroutines on one      *)
(* event loop: a coroutine runs alone from one suspension point to the     *)
(* next.  cur names the coroutine that is between two suspension points;   *)
(* while there is one, only its next statement can run.  There is one      *)
(* action per statement that writes a Job, so that every state a Job goes  *)
(* through is a state of the model.                                        *)
(***************************************************************************)

Idle == cur = <<"idle">>

SetJob(j, job) == jobs' = [jobs EXCEPT ![j] = job]

SetTaskPc(t, pc) == tasks' = [tasks EXCEPT ![t].pc = pc]

SetReqPc(r, pc) == reqs' = [reqs EXCEPT ![r].pc = pc]

\* no response was sent in this step
NoResponse == [job |-> 0, code |-> 0, detail |-> "None"]

\* broadcast_job_update: the message built from the job
job_update(job) == [type |-> "job_update", status |-> job.status, progress |-> job.progress]

\* ApprovalManager.learn_preference
manager_learn_preference(learn_preferences_, store, user_id, command, approved) ==
  IF ~learn_preferences_ THEN store
  ELSE store_learn_preference(store, user_id, command, approved)

\* submit_command: the job is built locally and registered at the end; the
\* background task starts after the response
submit_command(user_id, command) ==
  /\ Idle
  /\ Len(jobs) < MaxJobs
  /\ LET approval_required ==
           requires_approval(auto_approve_safe, user_preferences, command, ApiContext, user_id)
         job0 == [NewJob(command, user_id) EXCEPT !.requires_approval = approval_required,
                                                  !.created_at = now]
         job1 == IF ~approval_required
                 THEN set_status(job0, "approved", "Auto-approved based on safety assessment")
                 ELSE set_status(job0, "pending", "Waiting for user approval")
     IN  /\ jobs' = Append(jobs, job1)
         /\ events' = Append(events, <<>>)
         /\ tasks' = IF ~approval_required
                     THEN Append(tasks, [job |-> Len(jobs) + 1, pc |-> "queued", owner |-> 0,
                                         llm |-> "None", success |-> FALSE])
                     ELSE tasks
  /\ http_response' = NoResponse
  /\ UNCHANGED <<reqs, cur, config_vars, executor_vars, function_vars, disk_vars, user_preferences, manager_vars>>

\* approve_command without the check of line 146: every request for a known
\* job is accepted
approve_begin_unchecked(job_id, approved, remember) ==
  /\ Idle
  /\ IF job_id \notin 1..Len(jobs)
     THEN /\ http_response' = [job |-> job_id, code |-> 404, detail |-> "Job not found"]
          /\ UNCHANGED <<reqs, cur>>
     ELSE /\ Len(reqs) < MaxRequests
          /\ reqs' = Append(reqs, [job |-> job_id, approved |-> approved,
                                   remember |-> remember, at |-> now,
                                   pc |-> IF approved THEN "l151" ELSE "l164"])
          /\ cur' = <<"req", Len(reqs) + 1>>
          /\ http_response' = NoResponse
  /\ UNCHANGED <<jobs, tasks, events, config_vars, executor_vars, function_vars, disk_vars, user_preferences, manager_vars>>

\* approve_command, lines 142-150: the checks, up to the branch.  A refused
\* request ends here with its HTTP error; an accepted one is kept in reqs with
\* the clock reading of its arrival
approve_begin(job_id, approved, remember) ==
  /\ Idle
  /\ IF job_id \notin 1..Len(jobs)
     THEN /\ http_response' = [job |-> job_id, code |-> 404, detail |-> "Job not found"]
          /\ UNCHANGED <<reqs, cur>>
     ELSE IF jobs[job_id].status # "pending"
     THEN /\ http_response' =
               [job |-> job_id, code |-> 400, detail |-> "Job is not pending approval"]
          /\ UNCHANGED <<reqs, cur>>
     ELSE /\ Len(reqs) < MaxRequests
          /\ reqs' = Append(reqs, [job |-> job_id, approved |-> approved,
                                   remember |-> remember, at |-> now,
                                   pc |-> IF approved THEN "l151" ELSE "l164"])
          /\ cur' = <<"req", Len(reqs) + 1>>
          /\ http_response' = NoResponse
  /\ UNCHANGED <<jobs, tasks, events, config_vars, executor_vars, function_vars, disk_vars, user_preferences, manager_vars>>

\* approve_command, lines 151-153
approve_set_approved(r) ==
  /\ cur = <<"req", r>>
  /\ reqs[r].pc = "l151"
  /\ LET j == reqs[r].job
         job1 == set_status(jobs[j], "approved", "Approved by user")
     IN  SetJob(j, [job1 EXCEPT !.approved_by = job1.user_id])
  /\ SetReqPc(r, "l156")
  /\ http_response' = NoResponse
  /\ UNCHANGED <<tasks, cur, events, config_vars, executor_vars, function_vars, disk_vars, user_preferences, manager_vars>>

\* ApprovalManager.learn_preference(user_id, command, context, approved) with a
\* command that is a dict
manager_learn_preference_dict(learn_preferences_, store, user_id) ==
  IF ~learn_preferences_ THEN store
  ELSE store_learn_preference_dict(store, user_id)

\* approve_command, lines 156-159: learn_preference is called with
\* (job.command, job.context, job.user_id, True), so its user id is the
\* command's text and its command is the context dict
approve_learn(r) ==
  /\ cur = <<"req", r>>
  /\ reqs[r].pc = "l156"
  /\ LET job == jobs[reqs[r].job]
     IN  user_preferences' =
           IF reqs[r].remember
           THEN manager_learn_preference_dict(learn_preferences, user_preferences,
                                              Text(job.command))
           ELSE user_preferences
  /\ SetReqPc(r, "l162")
  /\ http_response' = NoResponse
  /\ UNCHANGED <<jobs, tasks, cur, events, config_vars, executor_vars, function_vars, disk_vars, manager_vars>>

\* approve_command, line 162: the task starts after the response
approve_dispatch(r) ==
  /\ cur = <<"req", r>>
  /\ reqs[r].pc = "l162"
  /\ tasks' = Append(tasks, [job |-> reqs[r].job, pc |-> "queued", owner |-> r,
                             llm |-> "None", success |-> FALSE])
  /\ SetReqPc(r, "l168")
  /\ http_response' = NoResponse
  /\ UNCHANGED <<jobs, cur, events, config_vars, executor_vars, function_vars, disk_vars, user_preferences, manager_vars>>

\* approve_command, line 164
approve_set_rejected(r) ==
  /\ cur = <<"req", r>>
  /\ reqs[r].pc = "l164"
  /\ SetJob(reqs[r].job, set_status(jobs[reqs[r].job], "rejected", "Rejected by user"))
  /\ SetReqPc(r, "l165")
  /\ http_response' = NoResponse
  /\ UNCHANGED <<tasks, cur, events, config_vars, executor_vars, function_vars, disk_vars, user_preferences, manager_vars>>

\* approve_command with line 162 outside the if: the rejected job is dispatched
approve_reject_result_dispatch(r) ==
  /\ cur = <<"req", r>>
  /\ reqs[r].pc = "l165"
  /\ SetJob(reqs[r].job, [jobs[reqs[r].job] EXCEPT !.result = "Command rejected by user"])
  /\ SetReqPc(r, "l162")
  /\ http_response' = NoResponse
  /\ UNCHANGED <<tasks, cur, events, config_vars, executor_vars, function_vars, disk_vars, user_preferences, manager_vars>>

\* approve_command, line 165
approve_reject_result(r) ==
  /\ cur = <<"req", r>>
  /\ reqs[r].pc = "l165"
  /\ SetJob(reqs[r].job, [jobs[reqs[r].job] EXCEPT !.result = "Command rejected by user"])
  /\ SetReqPc(r, "l168")
  /\ http_response' = NoResponse
  /\ UNCHANGED <<tasks, cur, events, config_vars, executor_vars, function_vars, disk_vars, user_preferences, manager_vars>>

\* approve_command, line 168: the message is built, then the sends suspend
approve_broadcast(r) ==
  /\ cur = <<"req", r>>
  /\ reqs[r].pc = "l168"
  /\ events' = [events EXCEPT ![reqs[r].job] = Append(@, job_update(jobs[reqs[r].job]))]
  /\ SetReqPc(r, "sending")
  /\ cur' = <<"idle">>
  /\ http_response' = NoResponse
  /\ UNCHANGED <<jobs, tasks, config_vars, executor_vars, function_vars, disk_vars, user_preferences, manager_vars>>

\* approve_command, line 170: the response; its background task may start now.
\* The request's locals die with it
approve_return(r) ==
  /\ Idle
  /\ reqs[r].pc = "sending"
  /\ reqs' = [reqs EXCEPT ![r] = [job |-> reqs[r].job, approved |-> reqs[r].approved,
                                  remember |-> FALSE, at |-> reqs[r].at, pc |-> "done"]]
  /\ http_response' = [job |-> reqs[r].job, code |-> 200, detail |-> "success"]
  /\ UNCHANGED <<jobs, tasks, cur, events, config_vars, executor_vars, function_vars, disk_vars, user_preferences, manager_vars>>

\* execute_command without line 260: the job is not marked as executing
exec_start_no_status(t) ==
  /\ Idle
  /\ tasks[t].pc = "queued"
  /\ IF tasks[t].owner = 0 THEN TRUE ELSE reqs[tasks[t].owner].pc = "done"
  /\ SetTaskPc(t, "l264")
  /\ cur' = <<"task", t>>
  /\ http_response' = NoResponse
  /\ UNCHANGED <<jobs, reqs, events, config_vars, executor_vars, function_vars, disk_vars, user_preferences, manager_vars>>

\* execute_command, lines 259-260
exec_start(t) ==
  /\ Idle
  /\ tasks[t].pc = "queued"
  /\ IF tasks[t].owner = 0 THEN TRUE ELSE reqs[tasks[t].owner].pc = "done"
  /\ SetJob(tasks[t].job, set_status(jobs[tasks[t].job], "executing", "Starting command execution"))
  /\ SetTaskPc(t, "l264")
  /\ cur' = <<"task", t>>
  /\ http_response' = NoResponse
  /\ UNCHANGED <<reqs, events, config_vars, executor_vars, function_vars, disk_vars, user_preferences, manager_vars>>

\* execute_command, lines 264-266: progress 10, then the model call suspends
exec_progress_10(t) ==
  /\ cur = <<"task", t>>
  /\ tasks[t].pc = "l264"
  /\ SetJob(tasks[t].job, update_progress(jobs[tasks[t].job], 10, "Analyzing command with LLM"))
  /\ SetTaskPc(t, "await_llm")
  /\ cur' = <<"idle">>
  /\ http_response' = NoResponse
  /\ UNCHANGED <<reqs, events, config_vars, executor_vars, function_vars, disk_vars, user_preferences, manager_vars>>

\* model_router.process_command returns a plan, returns a response without
\* 'commands', or raises
llm_returns(t, outcome) ==
  /\ Idle
  /\ tasks[t].pc = "await_llm"
  /\ tasks' = [tasks EXCEPT ![t].llm = outcome,
                            ![t].pc = IF outcome = "raise" THEN "l288" ELSE "l275"]
  /\ cur' = <<"task", t>>
  /\ http_response' = NoResponse
  /\ UNCHANGED <<jobs, reqs, events, config_vars, executor_vars, function_vars, disk_vars, user_preferences, manager_vars>>

\* execute_command, lines 275-276
exec_progress_30(t) ==
  /\ cur = <<"task", t>>
  /\ tasks[t].pc = "l275"
  /\ LET job == jobs[tasks[t].job]
         usage == IF tasks[t].llm = "plan" THEN 120 ELSE 0
     IN  SetJob(tasks[t].job,
                update_progress([job EXCEPT !.tokens_consumed = usage], 30,
                                "Generated execution plan"))
  /\ SetTaskPc(t, "l279")
  /\ http_response' = NoResponse
  /\ UNCHANGED <<reqs, cur, events, config_vars, executor_vars, function_vars, disk_vars, user_preferences, manager_vars>>

\* execute_command with 4 for 40 at line 279
exec_progress_40_low(t) ==
  /\ cur = <<"task", t>>
  /\ tasks[t].pc = "l279"
  /\ SetJob(tasks[t].job, update_progress(jobs[tasks[t].job], 4, "Executing commands"))
  /\ IF tasks[t].llm = "no_commands"
     THEN /\ SetTaskPc(t, "l288")
          /\ UNCHANGED cur
     ELSE /\ SetTaskPc(t, "await_executor")
          /\ cur' = <<"idle">>
  /\ http_response' = NoResponse
  /\ UNCHANGED <<reqs, events, config_vars, executor_vars, function_vars, disk_vars, user_preferences, manager_vars>>

\* execute_command, lines 279-280: progress 40, then llm_response['commands']
\* raises KeyError or the executor call suspends
exec_progress_40(t) ==
  /\ cur = <<"task", t>>
  /\ tasks[t].pc = "l279"
  /\ SetJob(tasks[t].job, update_progress(jobs[tasks[t].job], 40, "Executing commands"))
  /\ IF tasks[t].llm = "no_commands"
     THEN /\ SetTaskPc(t, "l288")
          /\ UNCHANGED cur
     ELSE /\ SetTaskPc(t, "await_executor")
          /\ cur' = <<"idle">>
  /\ http_response' = NoResponse
  /\ UNCHANGED <<reqs, events, config_vars, executor_vars, function_vars, disk_vars, user_preferences, manager_vars>>

\* executor.execute returns a CommandResult; it never raises
executor_returns(t, success) ==
  /\ Idle
  /\ tasks[t].pc = "await_executor"
  /\ tasks' = [tasks EXCEPT ![t].success = success, ![t].pc = "l282"]
  /\ cur' = <<"task", t>>
  /\ http_response' = NoResponse
  /\ UNCHANGED <<jobs, reqs, events, config_vars, executor_vars, function_vars, disk_vars, user_preferences, manager_vars>>

\* execute_command, line 282
exec_progress_90(t) ==
  /\ cur = <<"task", t>>
  /\ tasks[t].pc = "l282"
  /\ SetJob(tasks[t].job, update_progress(jobs[tasks[t].job], 90, "Processing results"))
  /\ SetTaskPc(t, "l283")
  /\ http_response' = NoResponse
  /\ UNCHANGED <<reqs, cur, events, config_vars, executor_vars, function_vars, disk_vars, user_preferences, manager_vars>>

\* execute_command, line 283
exec_set_completed(t) ==
  /\ cur = <<"task", t>>
  /\ tasks[t].pc = "l283"
  /\ SetJob(tasks[t].job, set_status(jobs[tasks[t].job], "completed", "Command executed successfully"))
  /\ SetTaskPc(t, "l284")
  /\ http_response' = NoResponse
  /\ UNCHANGED <<reqs, cur, events, config_vars, executor_vars, function_vars, disk_vars, user_preferences, manager_vars>>

\* execute_command, line 284
exec_set_result(t) ==
  /\ cur = <<"task", t>>
  /\ tasks[t].pc = "l284"
  /\ SetJob(tasks[t].job,
            [jobs[tasks[t].job] EXCEPT
               !.result = IF tasks[t].success THEN "CommandResult success"
                          ELSE "CommandResult failure"])
  /\ SetTaskPc(t, "l285")
  /\ http_response' = NoResponse
  /\ UNCHANGED <<reqs, cur, events, config_vars, executor_vars, function_vars, disk_vars, user_preferences, manager_vars>>

\* execute_command, line 285
exec_progress_100(t) ==
  /\ cur = <<"task", t>>
  /\ tasks[t].pc = "l285"
  /\ SetJob(tasks[t].job, update_progress(jobs[tasks[t].job], 100, "Complete"))
  /\ SetTaskPc(t, "l293")
  /\ http_response' = NoResponse
  /\ UNCHANGED <<reqs, cur, events, config_vars, executor_vars, function_vars, disk_vars, user_preferences, manager_vars>>

\* the handler of line 288 with the status left as it is
exec_set_failed_keep_status(t) ==
  /\ cur = <<"task", t>>
  /\ tasks[t].pc = "l288"
  /\ SetTaskPc(t, "l289")
  /\ http_response' = NoResponse
  /\ UNCHANGED <<jobs, reqs, cur, events, config_vars, executor_vars, function_vars, disk_vars, user_preferences, manager_vars>>

\* execute_command, line 288
exec_set_failed(t) ==
  /\ cur = <<"task", t>>
  /\ tasks[t].pc = "l288"
  /\ SetJob(tasks[t].job, set_status(jobs[tasks[t].job], "failed", "Execution failed"))
  /\ SetTaskPc(t, "l289")
  /\ http_response' = NoResponse
  /\ UNCHANGED <<reqs, cur, events, config_vars, executor_vars, function_vars, disk_vars, user_preferences, manager_vars>>

\* execute_command, line 289
exec_set_error(t) ==
  /\ cur = <<"task", t>>
  /\ tasks[t].pc = "l289"
  /\ SetJob(tasks[t].job,
            [jobs[tasks[t].job] EXCEPT
               !.error = IF tasks[t].llm = "raise" THEN "model invocation failed"
                         ELSE "KeyError: 'commands'"])
  /\ SetTaskPc(t, "l290")
  /\ http_response' = NoResponse
  /\ UNCHANGED <<reqs, cur, events, config_vars, executor_vars, function_vars, disk_vars, user_preferences, manager_vars>>

\* execute_command, line 290
exec_log_error(t) ==
  /\ cur = <<"task", t>>
  /\ tasks[t].pc = "l290"
  /\ SetJob(tasks[t].job,
            add_log(jobs[tasks[t].job], "ERROR", "error", "", 0, "Command execution failed"))
  /\ SetTaskPc(t, "l293")
  /\ http_response' = NoResponse
  /\ UNCHANGED <<reqs, cur, events, config_vars, executor_vars, function_vars, disk_vars, user_preferences, manager_vars>>

\* execute_command, line 293: the message is built and the task ends
exec_broadcast(t) ==
  /\ cur = <<"task", t>>
  /\ tasks[t].pc = "l293"
  /\ events' = [events EXCEPT ![tasks[t].job] = Append(@, job_update(jobs[tasks[t].job]))]
  /\ tasks' = [tasks EXCEPT ![t] = [job |-> tasks[t].job, pc |-> "done", owner |-> tasks[t].owner,
                                    llm |-> "None", success |-> FALSE]]
  /\ cur' = <<"idle">>
  /\ http_response' = NoResponse
  /\ UNCHANGED <<jobs, reqs, config_vars, executor_vars, function_vars, disk_vars, user_preferences, manager_vars>>

LlmOutcomes == {"plan", "no_commands", "raise"}

Next ==
  \/ \E u \in EngineUsers, c \in EngineCommands : submit_command(u, c)
  \/ \E j \in 1..MaxJobs, a \in BOOLEAN, m \in BOOLEAN : approve_begin(j, a, m)
  \/ \E r \in 1..Len(reqs) : approve_set_approved(r)
  \/ \E r \in 1..Len(reqs) : approve_learn(r)
  \/ \E r \in 1..Len(reqs) : approve_dispatch(r)
  \/ \E r \in 1..Len(reqs) : approve_set_rejected(r)
  \/ \E r \in 1..Len(reqs) : approve_reject_result(r)
  \/ \E r \in 1..Len(reqs) : approve_broadcast(r)
  \/ \E r \in 1..Len(reqs) : approve_return(r)
  \/ \E t \in 1..Len(tasks) : exec_start(t)
  \/ \E t \in 1..Len(tasks) : exec_progress_10(t)
  \/ \E t \in 1..Len(tasks), o \in LlmOutcomes : llm_returns(t, o)
  \/ \E t \in 1..Len(tasks) : exec_progress_30(t)
  \/ \E t \in 1..Len(tasks) : exec_progress_40(t)
  \/ \E t \in 1..Len(tasks), s \in BOOLEAN : executor_returns(t, s)
  \/ \E t \in 1..Len(tasks) : exec_progress_90(t)
  \/ \E t \in 1..Len(tasks) : exec_set_completed(t)
  \/ \E t \in 1..Len(tasks) : exec_set_result(t)
  \/ \E t \in 1..Len(tasks) : exec_progress_100(t)
  \/ \E t \in 1..Len(tasks) : exec_set_failed(t)
  \/ \E t \in 1..Len(tasks) : exec_set_error(t)
  \/ \E t \in 1..Len(tasks) : exec_log_error(t)
  \/ \E t \in 1..Len(tasks) : exec_broadcast(t)

Spec == InitFresh /\ [][Next]_vars

(***************************************************************************)
(* CommandExecutor.execute (executor/sandbox.py), called by                *)
(* execute_command at api.py line 280.  run holds the locals of the call:  *)
(* the plan, the index of the step in hand, overall_success, and for every *)
(* step what was done with it.  There is one action per statement at which *)
(* the call can be observed: validation, the spawn of the subprocess, its  *)
(* exit or its deadline, the collection of the step's result, the return.  *)
(***************************************************************************)

\* the loop of line 41: the next step, or the statements after the loop
loop_pc(plan, i) == IF i > Len(plan) THEN "l69" ELSE "l45"

SetStep(i, s) == [run EXCEPT !.steps[i] = s]

\* the step in hand
CurStep == run.plan[run.i]

InExecute(t, pc) ==
  /\ run.task = t
  /\ run.pc = pc
  /\ tasks[t].pc = "await_executor"

\* the call leaves the job engine alone
ExecutorStep ==
  /\ http_response' = NoResponse
  /\ UNCHANGED <<jobs, tasks, reqs, cur, events, sandbox_enabled, config_vars, function_vars, disk_vars,
                 user_preferences, manager_vars>>

\* execute, lines 33-38: the call starts on the plan the model returned
execute_begin(t, commands) ==
  /\ Idle
  /\ tasks[t].pc = "await_executor"
  /\ run.pc = "idle"
  /\ run' = [task |-> t, plan |-> commands, i |-> 1, pc |-> loop_pc(commands, 1),
             overall_success |-> TRUE,
             steps |-> [k \in 1..Len(commands) |-> NewStepState], result |-> NoResult]
  /\ ExecutorStep

\* execute with the continue of line 50 left out: a step that fails
\* validation goes on to its handler
execute_validate_no_continue(t) ==
  /\ InExecute(t, "l45")
  /\ IF ~ValidationTable[CurStep].valid
     THEN run' = [run EXCEPT !.steps[run.i].validated = "invalid",
                             !.overall_success = FALSE,
                             !.pc = "l53"]
     ELSE run' = [run EXCEPT !.steps[run.i].validated = "valid", !.pc = "l53"]
  /\ ExecutorStep

\* execute, lines 45-50: a step that fails validation is recorded as an error
\* and the loop continues with the next step
execute_validate(t) ==
  /\ InExecute(t, "l45")
  /\ IF ~ValidationTable[CurStep].valid
     THEN run' = [run EXCEPT !.steps[run.i].validated = "invalid",
                             !.overall_success = FALSE,
                             !.i = run.i + 1,
                             !.pc = loop_pc(run.plan, run.i + 1)]
     ELSE run' = [run EXCEPT !.steps[run.i].validated = "valid", !.pc = "l53"]
  /\ ExecutorStep

\* _execute_bash_command, lines 118-133 and 174-182: the sandbox restrictions
\* when enabled, then the spawn; ValueError and a failing spawn give exit code 1
execute_bash_command(t, spawn_ok) ==
  /\ InExecute(t, "l53")
  /\ CurStep.type = "bash"
  /\ IF (sandbox_enabled /\ SandboxTable[CurStep].raised) \/ ~spawn_ok
     THEN run' = [run EXCEPT
                    !.steps[run.i].result =
                       CommandResult(FALSE, 1, "Command execution failed"),
                    !.pc = "l56"]
     ELSE run' = [run EXCEPT
                    !.steps[run.i].proc = "running",
                    !.steps[run.i].spawned =
                       IF sandbox_enabled THEN SandboxTable[CurStep].command
                       ELSE CurStep.command,
                    !.pc = "l136"]
  /\ ExecutorStep

\* _execute_python_command, lines 219-243 and 271-279
execute_python_command(t, spawn_ok) ==
  /\ InExecute(t, "l53")
  /\ CurStep.type = "python"
  /\ IF ~spawn_ok
     THEN run' = [run EXCEPT
                    !.steps[run.i].result =
                       CommandResult(FALSE, 1, "Python command execution failed"),
                    !.pc = "l56"]
     ELSE run' = [run EXCEPT
                    !.steps[run.i].proc = "running",
                    !.steps[run.i].spawned = CurStep.command,
                    !.pc = "l245"]
  /\ ExecutorStep

\* _execute_sql_command
execute_sql_command(t) ==
  /\ InExecute(t, "l53")
  /\ CurStep.type = "sql"
  /\ run' = [run EXCEPT
               !.steps[run.i].result =
                  CommandResult(FALSE, 1, "SQL command execution not implemented in MVP"),
               !.pc = "l56"]
  /\ ExecutorStep

\* process.returncode
ReturnCodes == {0, 1}

\* process.communicate() returns within the deadline, lines 136-157 and 245-262
process_communicate(t, returncode) ==
  /\ run.task = t
  /\ run.pc \in {"l136", "l245"}
  /\ tasks[t].pc = "await_executor"
  /\ run' = [run EXCEPT
               !.steps[run.i].proc = "exited",
               !.steps[run.i].result = CommandResult(returncode = 0, returncode, ""),
               !.pc = "l56"]
  /\ ExecutorStep

\* _execute_bash_command, lines 159-172: the deadline passes, the process is
\* killed and awaited
bash_timeout(t) ==
  /\ InExecute(t, "l136")
  /\ run' = [run EXCEPT
               !.steps[run.i].proc = "killed",
               !.steps[run.i].result =
                  CommandResult(FALSE, 124, "Command timed out after N seconds"),
               !.pc = "l56"]
  /\ ExecutorStep

\* _execute_python_command, lines 264-270: the deadline passes; the handler
\* returns and leaves the process alone
python_timeout(t) ==
  /\ InExecute(t, "l245")
  /\ run' = [run EXCEPT
               !.steps[run.i].result =
                  CommandResult(FALSE, 124, "Python command timed out after N seconds"),
               !.pc = "l56"]
  /\ ExecutorStep

\* a process nobody waits for any more ends by itself
orphan_exits(k) ==
  /\ k \in 1..Len(run.steps)
  /\ run.steps[k].proc = "running"
  /\ k # run.i \/ run.pc \notin {"l136", "l245"}
  /\ run' = SetStep(k, [run.steps[k] EXCEPT !.proc = "exited"])
  /\ ExecutorStep

\* execute, lines 56-67, with the break of line 67 left out
execute_collect_no_break(t) ==
  /\ InExecute(t, "l56")
  /\ run' = [run EXCEPT
               !.steps[run.i].executed = TRUE,
               !.overall_success = run.overall_success /\ run.steps[run.i].result.success,
               !.i = run.i + 1,
               !.pc = loop_pc(run.plan, run.i + 1)]
  /\ ExecutorStep

\* execute, lines 56-67: the result is collected; a failed step clears
\* overall_success, and ends the loop when the step is declared destructive
execute_collect(t) ==
  /\ InExecute(t, "l56")
  /\ run' = [run EXCEPT
               !.steps[run.i].executed = TRUE,
               !.overall_success = run.overall_success /\ run.steps[run.i].result.success,
               !.i = IF ~run.steps[run.i].result.success /\ CurStep.safety_level = "destructive"
                     THEN run.i
                     ELSE run.i + 1,
               !.pc = IF ~run.steps[run.i].result.success /\ CurStep.safety_level = "destructive"
                      THEN "l69"
                      ELSE loop_pc(run.plan, run.i + 1)]
  /\ ExecutorStep

\* execute, lines 69-79, with exit_code always 0
execute_finish_exit_0(t) ==
  /\ InExecute(t, "l69")
  /\ run' = [run EXCEPT
               !.result = CommandResult(run.overall_success, 0, ""),
               !.pc = "done"]
  /\ ExecutorStep

\* execute, lines 69-79: the CommandResult of the plan
execute_finish(t) ==
  /\ InExecute(t, "l69")
  /\ run' = [run EXCEPT
               !.result = CommandResult(run.overall_success,
                                        IF run.overall_success THEN 0 ELSE 1, ""),
               !.pc = "done"]
  /\ ExecutorStep

\* api.py line 280: execute_command resumes with the CommandResult
execute_return(t) ==
  /\ Idle
  /\ InExecute(t, "done")
  /\ run' = [run EXCEPT !.pc = "returned"]
  /\ tasks' = [tasks EXCEPT ![t].success = run.result.success, ![t].pc = "l282"]
  /\ cur' = <<"task", t>>
  /\ http_response' = NoResponse
  /\ UNCHANGED <<jobs, reqs, events, sandbox_enabled, config_vars, function_vars, disk_vars, user_preferences,
                 manager_vars>>

\* one job is submitted and runs to its end
submit_first(user_id, command) ==
  /\ jobs = <<>>
  /\ submit_command(user_id, command)

\* the daemon with its executor under any sandbox setting
InitExecution ==
  /\ Init
  /\ auto_approve_safe = TRUE
  /\ learn_preferences = TRUE
  /\ user_preferences = EmptyStore

NextExecution ==
  \/ \E u \in EngineUsers : submit_first(u, cmd_ls)
  \/ \E t \in 1..Len(tasks) : exec_start(t)
  \/ \E t \in 1..Len(tasks) : exec_progress_10(t)
  \/ \E t \in 1..Len(tasks), o \in LlmOutcomes : llm_returns(t, o)
  \/ \E t \in 1..Len(tasks) : exec_progress_30(t)
  \/ \E t \in 1..Len(tasks) : exec_progress_40(t)
  \/ \E t \in 1..Len(tasks), p \in Plans : execute_begin(t, p)
  \/ \E t \in 1..Len(tasks) : execute_validate(t)
  \/ \E t \in 1..Len(tasks), ok \in BOOLEAN : execute_bash_command(t, ok)
  \/ \E t \in 1..Len(tasks), ok \in BOOLEAN : execute_python_command(t, ok)
  \/ \E t \in 1..Len(tasks) : execute_sql_command(t)
  \/ \E t \in 1..Len(tasks), rc \in ReturnCodes : process_communicate(t, rc)
  \/ \E t \in 1..Len(tasks) : bash_timeout(t)
  \/ \E t \in 1..Len(tasks) : python_timeout(t)
  \/ \E k \in 1..MaxPlanLen : orphan_exits(k)
  \/ \E t \in 1..Len(tasks) : execute_collect(t)
  \/ \E t \in 1..Len(tasks) : execute_finish(t)
  \/ \E t \in 1..Len(tasks) : execute_return(t)
  \/ \E t \in 1..Len(tasks) : exec_progress_90(t)
  \/ \E t \in 1..Len(tasks) : exec_set_completed(t)
  \/ \E t \in 1..Len(tasks) : exec_set_result(t)
  \/ \E t \in 1..Len(tasks) : exec_progress_100(t)
  \/ \E t \in 1..Len(tasks) : exec_set_failed(t)
  \/ \E t \in 1..Len(tasks) : exec_set_error(t)
  \/ \E t \in 1..Len(tasks) : exec_log_error(t)
  \/ \E t \in 1..Len(tasks) : exec_broadcast(t)

SpecExecution == InitExecution /\ [][NextExecution]_vars

(***************************************************************************)
(* Approval manager operations (approval/manager.py).  None of them        *)
(* suspends between its first read and its last write of the table, so     *)
(* each is one step.  last_call holds what the call returned.              *)
(***************************************************************************)

\* hash(command) % 1000: a number below 1000 that depends on the command alone.
\* str hashes are seeded per process; this is one process, in which the
\* commands of the model have different hashes
hash_mod_1000(command) == (Len(command) * 131 + 7) % 1000

\* the ids issued so far, and one that never was
KnownIds == {timers[k].id : k \in 1..Len(timers)} \cup {<<0, 1000>>}

\* del d[k]
Remove(d, k) == [x \in (DOMAIN d) \ {k} |-> d[x]]

\* request_approval
request_approval(user_id, command, context) ==
  /\ Len(timers) < MaxApprovals
  /\ LET approval_id == <<now, hash_mod_1000(command)>>
         approval_data ==
           [id |-> approval_id, command |-> command, user_id |-> user_id,
            risk_level |-> risk_assessment(command, context).level,
            status |-> "pending", created_at |-> now, expires_at |-> now + ApprovalTimeout]
     IN  /\ pending_approvals' = Put(pending_approvals, approval_id, approval_data)
         /\ timers' = Append(timers, [id |-> approval_id, due |-> now + ApprovalTimeout,
                                      fired |-> FALSE])
         /\ last_call' = [NoCall EXCEPT !.op = "request_approval", !.id = approval_id,
                                        !.ok = TRUE]
  /\ UNCHANGED <<now, decisions, user_preferences, config_vars, executor_vars, function_vars, disk_vars, engine_vars>>

\* process_approval_response had it learned the decision before it looked at
\* the expiry
process_approval_response_learn_first(approval_id, approved, remember) ==
  /\ IF approval_id \notin DOMAIN pending_approvals
     THEN /\ last_call' = [NoCall EXCEPT !.op = "process_approval_response",
                             !.id = approval_id,
                             !.detail = "Approval request not found or expired"]
          /\ UNCHANGED <<pending_approvals, decisions, user_preferences>>
     ELSE LET approval_data == pending_approvals[approval_id]
          IN  /\ user_preferences' =
                   IF remember /\ learn_preferences
                   THEN store_learn_preference(user_preferences, approval_data.user_id,
                                               approval_data.command, approved)
                   ELSE user_preferences
              /\ pending_approvals' = Remove(pending_approvals, approval_id)
              /\ IF now > approval_data.expires_at
                 THEN /\ last_call' = [NoCall EXCEPT !.op = "process_approval_response",
                                         !.id = approval_id,
                                         !.detail = "Approval request has expired"]
                      /\ UNCHANGED decisions
                 ELSE /\ decisions' =
                           Put(decisions, approval_id,
                               Append(Get(decisions, approval_id, <<>>),
                                      IF approved THEN "approved" ELSE "rejected"))
                      /\ last_call' = [NoCall EXCEPT !.op = "process_approval_response",
                                         !.id = approval_id, !.ok = TRUE,
                                         !.detail = IF approved THEN "approved" ELSE "rejected"]
  /\ UNCHANGED <<timers, now, config_vars, executor_vars, function_vars, disk_vars, engine_vars>>

\* process_approval_response
process_approval_response(approval_id, approved, remember) ==
  /\ IF approval_id \notin DOMAIN pending_approvals
     THEN /\ last_call' = [NoCall EXCEPT !.op = "process_approval_response",
                             !.id = approval_id,
                             !.detail = "Approval request not found or expired"]
          /\ UNCHANGED <<pending_approvals, decisions, user_preferences>>
     ELSE LET approval_data == pending_approvals[approval_id]
          IN  IF now > approval_data.expires_at
              THEN /\ pending_approvals' = Remove(pending_approvals, approval_id)
                   /\ last_call' = [NoCall EXCEPT !.op = "process_approval_response",
                                      !.id = approval_id,
                                      !.detail = "Approval request has expired"]
                   /\ UNCHANGED <<decisions, user_preferences>>
              ELSE /\ user_preferences' =
                        IF remember /\ learn_preferences
                        THEN store_learn_preference(user_preferences, approval_data.user_id,
                                                    approval_data.command, approved)
                        ELSE user_preferences
                   /\ decisions' =
                        Put(decisions, approval_id,
                            Append(Get(decisions, approval_id, <<>>),
                                   IF approved THEN "approved" ELSE "rejected"))
                   /\ pending_approvals' = Remove(pending_approvals, approval_id)
                   /\ last_call' = [NoCall EXCEPT !.op = "process_approval_response",
                                      !.id = approval_id, !.ok = TRUE,
                                      !.detail = IF approved THEN "approved" ELSE "rejected"]
  /\ UNCHANGED <<timers, now, config_vars, executor_vars, function_vars, disk_vars, engine_vars>>

\* get_approval_status
get_approval_status(approval_id) ==
  /\ IF approval_id \notin DOMAIN pending_approvals
     THEN /\ last_call' = [NoCall EXCEPT !.op = "get_approval_status", !.id = approval_id]
          /\ UNCHANGED pending_approvals
     ELSE IF now > pending_approvals[approval_id].expires_at
     THEN /\ pending_approvals' = Remove(pending_approvals, approval_id)
          /\ last_call' = [NoCall EXCEPT !.op = "get_approval_status", !.id = approval_id,
                                         !.ok = TRUE, !.detail = "timeout"]
     ELSE /\ last_call' = [NoCall EXCEPT !.op = "get_approval_status", !.id = approval_id,
                                         !.ok = TRUE,
                                         !.detail = pending_approvals[approval_id].status]
          /\ UNCHANGED pending_approvals
  /\ UNCHANGED <<timers, now, decisions, user_preferences, config_vars, executor_vars, function_vars, disk_vars, engine_vars>>

\* get_pending_approvals; user_id "None" is no filter
get_pending_approvals(user_id) ==
  /\ LET visited == {i \in DOMAIN pending_approvals :
                        user_id = "None" \/ pending_approvals[i].user_id = user_id}
         expired == {i \in visited : now > pending_approvals[i].expires_at}
     IN  /\ last_call' = [NoCall EXCEPT !.op = "get_pending_approvals", !.ok = TRUE,
                             !.user_id = user_id, !.at = now,
                             !.listed = {pending_approvals[i] : i \in visited \ expired}]
         /\ pending_approvals' = [i \in (DOMAIN pending_approvals) \ expired |->
                                     pending_approvals[i]]
  /\ UNCHANGED <<timers, now, decisions, user_preferences, config_vars, executor_vars, function_vars, disk_vars, engine_vars>>

\* the timer task with the removal of the entry left out
cleanup_expired_approval_keep(k) ==
  /\ ~timers[k].fired
  /\ now >= timers[k].due
  /\ timers' = [timers EXCEPT ![k].fired = TRUE]
  /\ pending_approvals' = pending_approvals
  /\ UNCHANGED <<now, decisions, last_call, user_preferences, config_vars, executor_vars, function_vars, disk_vars, engine_vars>>

\* _cleanup_expired_approval: the timer task wakes once its sleep has elapsed
cleanup_expired_approval(k) ==
  /\ ~timers[k].fired
  /\ now >= timers[k].due
  /\ timers' = [timers EXCEPT ![k].fired = TRUE]
  /\ pending_approvals' =
       IF /\ timers[k].id \in DOMAIN pending_approvals
          /\ pending_approvals[timers[k].id].status = "pending"
       THEN Remove(pending_approvals, timers[k].id)
       ELSE pending_approvals
  /\ UNCHANGED <<now, decisions, last_call, user_preferences, config_vars, executor_vars, function_vars, disk_vars, engine_vars>>

\* the daemon had it a timer that rejects the jobs left pending past the
\* approval timeout
Tick_rejects_overdue ==
  /\ now < MaxTime
  /\ now' = now + 1
  /\ jobs' = [j \in 1..Len(jobs) |->
                IF jobs[j].status = "pending" /\ now + 1 > jobs[j].created_at + ApprovalTimeout
                THEN set_status(jobs[j], "rejected", "Approval timed out")
                ELSE jobs[j]]
  /\ UNCHANGED <<pending_approvals, timers, decisions, last_call, user_preferences,
                 config_vars, executor_vars, function_vars, disk_vars,
                 tasks, reqs, cur, http_response, events>>

\* time passes
Tick ==
  /\ now < MaxTime
  /\ now' = now + 1
  /\ UNCHANGED <<pending_approvals, timers, decisions, last_call, user_preferences,
                 config_vars, executor_vars, function_vars, disk_vars, engine_vars>>

NextApproval ==
  \/ \E u \in Users, c \in RequestCommands : request_approval(u, c, ApiContext)
  \/ \E i \in KnownIds, a \in BOOLEAN, m \in BOOLEAN : process_approval_response(i, a, m)
  \/ \E i \in KnownIds : get_approval_status(i)
  \/ \E u \in Users \cup {"None"} : get_pending_approvals(u)
  \/ \E k \in 1..Len(timers) : cleanup_expired_approval(k)
  \/ Tick

SpecApproval == InitFresh /\ [][NextApproval]_vars

\* the approval manager serving one user, with nothing remembered
NextApprovalFair ==
  \/ \E c \in RequestCommands : request_approval("u1", c, ApiContext)
  \/ \E i \in KnownIds, a \in BOOLEAN : process_approval_response(i, a, FALSE)
  \/ \E i \in KnownIds : get_approval_status(i)
  \/ get_pending_approvals("None")
  \/ \E k \in 1..Len(timers) : cleanup_expired_approval(k)
  \/ Tick

\* The event loop resumes every timer task whose sleep has elapsed, and the
\* clock advances: weak fairness on each timer and on the passage of time.
SpecApprovalFair ==
  /\ InitFresh
  /\ [][NextApprovalFair]_vars
  /\ WF_vars(Tick)
  /\ \A k \in 1..MaxApprovals : WF_vars(k <= Len(timers) /\ cleanup_expired_approval(k))

(***************************************************************************)
(* requires_approval as a function of its inputs: the calls, on every      *)
(* store the learned decisions lead to.                                    *)
(***************************************************************************)

\* a call of requires_approval
call_requires_approval(command, context, user_id) ==
  /\ last_call' = [NoCall EXCEPT
                     !.op = "requires_approval", !.command = command, !.context = context,
                     !.user_id = user_id,
                     !.ok = requires_approval(auto_approve_safe, user_preferences,
                                              command, context, user_id)]
  /\ UNCHANGED <<pending_approvals, timers, now, decisions, user_preferences, config_vars, executor_vars, function_vars, disk_vars,
                 engine_vars>>

\* a call of ApprovalManager.learn_preference
call_learn_preference(user_id, command, approved) ==
  /\ Len(user_preferences.approval_history) < MaxHistory
  /\ user_preferences' = manager_learn_preference(learn_preferences, user_preferences,
                                                  user_id, command, approved)
  /\ last_call' = [NoCall EXCEPT !.op = "learn_preference", !.ok = learn_preferences]
  /\ UNCHANGED <<pending_approvals, timers, now, decisions, config_vars, executor_vars, function_vars, disk_vars, engine_vars>>

NextDecision ==
  \/ \E c \in Commands, x \in Contexts, u \in Users \cup {UnhashableUser} :
        call_requires_approval(c, x, u)
  \/ \E a \in BOOLEAN : call_learn_preference("u1", cmd_rm_other, a)

SpecDecision == Init /\ [][NextDecision]_vars

(***************************************************************************)
(* The risk classifier called on its own.                                  *)
(***************************************************************************)

\* the commands assessed: those of the approval manager's calls and
\* "sudo ls", "sudo apt update", "sudo rm x", "cat /etc/passwd",
\* "mv x /etc/sudoers", "git status", " "
RiskCommands ==
  {cmd_ls, cmd_rm, cmd_rm_pipe, cmd_rm_root, cmd_ls_tmp,
   <<"s", "u", "d", "o", " ", "l", "s">>,
   <<"s", "u", "d", "o", " ", "a", "p", "t", " ", "u", "p", "d", "a", "t", "e">>,
   <<"s", "u", "d", "o", " ", "r", "m", " ", "x">>,
   <<"c", "a", "t", " ", "/", "e", "t", "c", "/", "p", "a", "s", "s", "w", "d">>,
   <<"m", "v", " ", "x", " ", "/", "e", "t", "c", "/", "s", "u", "d", "o", "e", "r", "s">>,
   <<"g", "i", "t", " ", "s", "t", "a", "t", "u", "s">>,
   <<" ">>}

\* the contexts a command is assessed in: every dict over these values of
\* current_directory, user and recent_commands (none, or "sudo ls"), and None
RiskContexts ==
  {[is_dict |-> TRUE, current_directory |-> d, user |-> u, recent_commands |-> r] :
     d \in {"", "/etc"}, u \in {"None", "root"}, r \in {<<>>, << <<"s", "u", "d", "o", " ", "l", "s">> >>}}
  \cup {NoneContext}

\* RiskAssessment.assess_command_risk is called
call_assess_command_risk(command, context) ==
  /\ call' = [NoFnCall EXCEPT !.op = "assess_command_risk", !.command = command,
                              !.context = context,
                              !.report = assess_command_risk(command, context)]
  /\ UNCHANGED <<user_preferences, config_vars, manager_vars, engine_vars,
                 executor_vars, disk_vars>>

NextRisk ==
  \E command \in RiskCommands, context \in RiskContexts :
    call_assess_command_risk(command, context)

SpecRisk == InitFresh /\ [][NextRisk]_vars

(***************************************************************************)
(* The preference store behind the approval manager: decisions are learned *)
(* and looked up.                                                          *)
(***************************************************************************)

\* the commands decisions are learned on
LearnedCommands == {cmd_ls_tmp, cmd_rm_other}

\* the commands looked up: those learned and others with the same head token
LookupCommands == {cmd_ls, cmd_ls_tmp, cmd_rm, cmd_rm_other}

\* UserPreferences.get_command_preference is called
call_get_command_preference(user_id, command) ==
  /\ call' = [NoFnCall EXCEPT
                !.op = "get_command_preference", !.user_id = user_id,
                !.command = command,
                !.learned = Len(user_preferences.approval_history),
                !.pref = get_command_preference(user_preferences, user_id, command),
                !.confidence =
                   IF hash_command(command)
                        \in DOMAIN Get(user_preferences.preferences, user_id, EmptyDict)
                   THEN <<0, 1>>
                   ELSE pattern_confidence(user_preferences, user_id, command)]
  /\ UNCHANGED <<user_preferences, config_vars, manager_vars, engine_vars,
                 executor_vars, disk_vars>>

\* learning is on and nothing has been learned yet
InitPreferences ==
  /\ InitFresh
  /\ learn_preferences = TRUE

\* decisions are learned and the manager decides on commands
NextPreferences ==
  \/ \E c \in LearnedCommands, a \in BOOLEAN : call_learn_preference("u1", c, a)
  \/ \E c \in LookupCommands : call_requires_approval(c, ApiContext, "u1")

SpecPreferences == InitPreferences /\ [][NextPreferences]_vars

\* decisions are learned and preferences are looked up
NextLookup ==
  \/ \E c \in LearnedCommands, a \in BOOLEAN : call_learn_preference("u1", c, a)
  \/ \E c \in LookupCommands : call_get_command_preference("u1", c)

SpecLookup == InitPreferences /\ [][NextLookup]_vars

(***************************************************************************)
(* The preference store and its files (approval/preferences.py): save,     *)
(* load, export and import.                                                *)
(***************************************************************************)

\* the entries of the history that save writes: approval_history[-1000:],
\* scaled
HistoryLimit == 3

\* seq[-n:]
LastEntries(seq, n) == IF Len(seq) <= n THEN seq ELSE SubSeq(seq, Len(seq) - n + 1, Len(seq))

\* save, lines 54-59: the document written
save_data(store) == [store EXCEPT !.approval_history = LastEntries(@, HistoryLimit)]

\* load: json.load raises on a partial document and the handler empties the
\* store; without a file the store stays as it is
store_load(file, store) ==
  IF file.state = "absent" THEN store
  ELSE IF file.state = "partial" THEN EmptyStore
  ELSE file.doc

\* d.update(e)
Update(d, e) == [k \in (DOMAIN d) \cup (DOMAIN e) |-> IF k \in DOMAIN e THEN e[k] ELSE d[k]]

\* export_preferences: the document written
store_export(store, user_id) ==
  [written |-> TRUE, user_id |-> user_id,
   preferences |-> Get(store.preferences, user_id, EmptyDict),
   patterns |-> Get(store.command_patterns, user_id, EmptyDict)]

\* import_preferences on a document
store_import(store, user_data) ==
  LET user_id == user_data.user_id
  IN  [store EXCEPT
         !.preferences =
            Put(@, user_id, Update(Get(@, user_id, EmptyDict), user_data.preferences)),
         !.command_patterns =
            Put(@, user_id, Update(Get(@, user_id, EmptyDict), user_data.patterns))]

\* the decisions a user's fingerprint entries stand for: the sum of usage_count
RECURSIVE UsageCount(_, _)
UsageCount(user_prefs, keys) ==
  IF keys = {} THEN 0
  ELSE LET k == CHOOSE x \in keys : TRUE
       IN  user_prefs[k].usage_count + UsageCount(user_prefs, keys \ {k})

Decisions(store, user_id) ==
  LET user_prefs == Get(store.preferences, user_id, EmptyDict)
  IN  UsageCount(user_prefs, DOMAIN user_prefs)

PersistenceStep ==
  UNCHANGED <<config_vars, manager_vars, engine_vars, executor_vars>>

\* UserPreferences.learn_preference is called
call_store_learn_preference(user_id, command, approved) ==
  /\ ~preferences_file.open
  /\ Len(user_preferences.approval_history) <= HistoryLimit
  /\ Decisions(user_preferences, user_id) <= HistoryLimit
  /\ user_preferences' = store_learn_preference(user_preferences, user_id, command, approved)
  /\ call' = [NoFnCall EXCEPT !.op = "learn_preference", !.user_id = user_id,
                              !.command = command]
  /\ UNCHANGED disk_vars
  /\ PersistenceStep

\* save, line 61: open(preferences_file, 'w') creates or truncates the file
save_open ==
  /\ ~preferences_file.open
  /\ preferences_file' = [state |-> "partial", doc |-> EmptyStore, open |-> TRUE]
  /\ call' = [NoFnCall EXCEPT !.op = "save"]
  /\ UNCHANGED <<user_preferences, export_file>>
  /\ PersistenceStep

\* save, line 62: json.dump writes the document and the file is closed
save_dump ==
  /\ preferences_file.open
  /\ preferences_file' = [state |-> "complete", doc |-> save_data(user_preferences),
                          open |-> FALSE]
  /\ call' = [NoFnCall EXCEPT !.op = "save", !.result = TRUE]
  /\ UNCHANGED <<user_preferences, export_file>>
  /\ PersistenceStep

\* save, lines 62 and 66-67: a write raises (the disk is full), the file is
\* closed as it is and the handler logs the error
save_dump_fails ==
  /\ preferences_file.open
  /\ preferences_file' = [preferences_file EXCEPT !.open = FALSE]
  /\ call' = [NoFnCall EXCEPT !.op = "save", !.result = FALSE]
  /\ UNCHANGED <<user_preferences, export_file>>
  /\ PersistenceStep

\* the daemon is killed and started again: a new store is constructed and
\* ApprovalManager.start loads the file
restart_and_load ==
  /\ user_preferences' = store_load(preferences_file, EmptyStore)
  /\ preferences_file' = [preferences_file EXCEPT !.open = FALSE]
  /\ call' = [NoFnCall EXCEPT !.op = "load",
                              !.result = (preferences_file.state # "partial")]
  /\ UNCHANGED export_file
  /\ PersistenceStep

\* export_preferences is called
call_export_preferences(user_id) ==
  /\ ~preferences_file.open
  /\ export_file' = store_export(user_preferences, user_id)
  /\ call' = [NoFnCall EXCEPT !.op = "export_preferences", !.user_id = user_id]
  /\ UNCHANGED <<user_preferences, preferences_file>>
  /\ PersistenceStep

\* import_preferences is called on the exported file
call_import_preferences ==
  /\ ~preferences_file.open
  /\ export_file.written
  /\ user_preferences' = store_import(user_preferences, export_file)
  /\ call' = [NoFnCall EXCEPT !.op = "import_preferences",
                              !.user_id = export_file.user_id]
  /\ UNCHANGED disk_vars
  /\ PersistenceStep

\* decisions are learned, the store is saved, the daemon is restarted
NextPersistence ==
  \/ \E c \in LearnedCommands, a \in BOOLEAN : call_store_learn_preference("u1", c, a)
  \/ save_open
  \/ save_dump
  \/ save_dump_fails
  \/ restart_and_load

SpecPersistence == InitPreferences /\ [][NextPersistence]_vars

\* decisions are learned, a user's preferences are exported and imported
NextExchange ==
  \/ \E c \in LearnedCommands, a \in BOOLEAN : call_store_learn_preference("u1", c, a)
  \/ call_export_preferences("u1")
  \/ call_import_preferences

SpecExchange == InitPreferences /\ [][NextExchange]_vars

(***************************************************************************)
(* Model router (llm/model_router.py): the model chosen for a command and  *)
(* the plan read from the model's response.                                *)
(***************************************************************************)

\* BedrockClient.list_available_models: the keys of BedrockClient.models
available_models == {"titan-text-lite", "claude-3-haiku", "claude-3.5-sonnet"}

\* complexity_weights
complexity_weights ==
  [file_operations |-> 1, git_operations |-> 2, process_management |-> 3,
   code_analysis |-> 4, multi_step |-> 6, context_size |-> 2]

file_ops ==
  {<<"l", "i", "s", "t">>,
   <<"c", "o", "p", "y">>,
   <<"m", "o", "v", "e">>,
   <<"d", "e", "l", "e", "t", "e">>,
   <<"o", "r", "g", "a", "n", "i", "z", "e">>,
   <<"f", "i", "n", "d">>}

git_ops ==
  {<<"g", "i", "t">>,
   <<"c", "o", "m", "m", "i", "t">>,
   <<"b", "r", "a", "n", "c", "h">>,
   <<"m", "e", "r", "g", "e">>,
   <<"p", "u", "s", "h">>,
   <<"p", "u", "l", "l">>}

process_ops ==
  {<<"p", "r", "o", "c", "e", "s", "s">>,
   <<"k", "i", "l", "l">>,
   <<"s", "t", "a", "r", "t">>,
   <<"s", "t", "o", "p">>,
   <<"m", "o", "n", "i", "t", "o", "r">>}

code_ops ==
  {<<"a", "n", "a", "l", "y", "z", "e">>,
   <<"r", "e", "f", "a", "c", "t", "o", "r">>,
   <<"d", "e", "b", "u", "g">>,
   <<"t", "e", "s", "t">>,
   <<"r", "e", "v", "i", "e", "w">>}

multi_step_indicators ==
  {<<"a", "n", "d">>,
   <<"t", "h", "e", "n">>,
   <<"a", "f", "t", "e", "r">>,
   <<"s", "e", "t", "u", "p">>,
   <<"c", "o", "n", "f", "i", "g", "u", "r", "e">>,
   <<"d", "e", "p", "l", "o", "y">>}

\* any(op in command_lower for op in ops)
AnyIn(ops, command_lower) == \E op \in ops : Contains(command_lower, op)

\* analyze_complexity; large_context: len(str(context)) > 10000
analyze_complexity(command, large_context) ==
  LET command_lower == lower(command)
  IN  (IF AnyIn(file_ops, command_lower) THEN complexity_weights.file_operations ELSE 0)
      + (IF AnyIn(git_ops, command_lower) THEN complexity_weights.git_operations ELSE 0)
      + (IF AnyIn(process_ops, command_lower) THEN complexity_weights.process_management ELSE 0)
      + (IF AnyIn(code_ops, command_lower) THEN complexity_weights.code_analysis ELSE 0)
      + (IF AnyIn(multi_step_indicators, command_lower) THEN complexity_weights.multi_step ELSE 0)
      + (IF large_context THEN complexity_weights.context_size ELSE 0)

\* select_model had it taken the configured default without looking it up
select_model_any_default(config, command, large_context) ==
  LET complexity_score == analyze_complexity(command, large_context)
      tier == IF complexity_score < 3 THEN "titan-text-lite"
              ELSE IF complexity_score < 7 THEN "claude-3-haiku"
              ELSE "claude-3.5-sonnet"
      model_name == IF config.has_default THEN config.default_model ELSE tier
  IN  [model_name |-> model_name, complexity_score |-> complexity_score]

\* select_model: config is ModelRouter.config
select_model(config, command, large_context) ==
  LET complexity_score == analyze_complexity(command, large_context)
      tier == IF complexity_score < 3 THEN "titan-text-lite"
              ELSE IF complexity_score < 7 THEN "claude-3-haiku"
              ELSE "claude-3.5-sonnet"
      model_name == IF config.has_default /\ config.default_model \in available_models
                    THEN config.default_model ELSE tier
  IN  [model_name |-> model_name, complexity_score |-> complexity_score]

\* the backquote character is written "BQ"

\* str.split('\n')
RECURSIVE SplitLines(_)
SplitLines(s) ==
  IF ~Contains(s, <<"\n">>) THEN <<s>>
  ELSE <<BeforeFirst(s, <<"\n">>)>> \o SplitLines(DropFirst(s, Len(BeforeFirst(s, <<"\n">>)) + 1))

\* str.replace(old, '')
RECURSIVE RemoveAll(_, _)
RemoveAll(s, old) ==
  IF ~Contains(s, old) THEN s
  ELSE BeforeFirst(s, old) \o RemoveAll(DropFirst(s, Len(BeforeFirst(s, old)) + Len(old)), old)

\* the line prefixes the scanner looks for
section_marks ==
  [commands |-> <<"C", "o", "m", "m", "a", "n", "d", "s", ":">>,
   bash |-> <<"BQ", "BQ", "BQ", "b", "a", "s", "h">>,
   interpretation |-> <<"I", "n", "t", "e", "r", "p", "r", "e", "t", "a", "t", "i", "o", "n", ":">>,
   explanation |-> <<"E", "x", "p", "l", "a", "n", "a", "t", "i", "o", "n", ":">>,
   fence |-> <<"BQ", "BQ", "BQ">>]

\* the locals of the line scanner before the first line
NewScan ==
  [current_section |-> "None", commands |-> <<>>, interpretation |-> <<>>,
   explanation |-> <<>>]

\* _parse_llm_response, lines 142-176: one turn of the loop over the lines
scan_line(scan, raw_line) ==
  LET line == Strip(raw_line)
  IN  IF line = <<>> THEN scan
      ELSE IF StartsWith(line, section_marks.commands) \/ StartsWith(line, section_marks.bash)
           THEN [scan EXCEPT !.current_section = "commands"]
      ELSE IF StartsWith(line, section_marks.interpretation)
           THEN [scan EXCEPT !.current_section = "interpretation",
                             !.interpretation = Strip(RemoveAll(line, section_marks.interpretation))]
      ELSE IF StartsWith(line, section_marks.explanation)
           THEN [scan EXCEPT !.current_section = "explanation",
                             !.explanation = Strip(RemoveAll(line, section_marks.explanation))]
      ELSE IF StartsWith(line, section_marks.fence)
           THEN [scan EXCEPT !.current_section = "None"]
      ELSE IF scan.current_section = "commands"
           THEN LET command == IF StartsWith(line, <<"$">>) \/ StartsWith(line, <<"#">>)
                               THEN Strip(DropFirst(line, 1)) ELSE line
                IN  IF command # <<>>
                    THEN [scan EXCEPT !.commands = Append(@, Step("bash", command, "safe"))]
                    ELSE scan
      ELSE IF scan.current_section = "interpretation"
           THEN [scan EXCEPT !.interpretation = @ \o <<" ">> \o line]
      ELSE IF scan.current_section = "explanation"
           THEN [scan EXCEPT !.explanation = @ \o <<" ">> \o line]
      ELSE scan

\* the loop over the lines
RECURSIVE scan_lines(_, _)
scan_lines(scan, lines) ==
  IF lines = <<>> THEN scan ELSE scan_lines(scan_line(scan, Head(lines)), Tail(lines))

\* a plan: the dict _parse_llm_response returns; via is the branch that built it
Plan(via, interpretation, commands, explanation) ==
  [via |-> via, interpretation |-> interpretation, commands |-> commands,
   explanation |-> explanation]

\* {"interpretation": "nothing to do", "commands": []}
json_no_commands ==
  <<"{", "\"", "i", "n", "t", "e", "r", "p", "r", "e", "t", "a", "t", "i", "o", "n", "\"", ":", " ", "\"", "n", "o", "t", "h", "i", "n", "g", " ", "t", "o", " ", "d", "o", "\"", ",", " ", "\"", "c", "o", "m", "m", "a", "n", "d", "s", "\"", ":", " ", "[", "]", "}">>

\* {"commands": [{"type": "bash", "command": "ls", "safety_level": "safe"}]}
json_one_command ==
  <<"{", "\"", "c", "o", "m", "m", "a", "n", "d", "s", "\"", ":", " ", "[", "{", "\"", "t", "y", "p", "e", "\"", ":", " ", "\"", "b", "a", "s", "h", "\"", ",", " ", "\"", "c", "o", "m", "m", "a", "n", "d", "\"", ":", " ", "\"", "l", "s", "\"", ",", " ", "\"", "s", "a", "f", "e", "t", "y", "_", "l", "e", "v", "e", "l", "\"", ":", " ", "\"", "s", "a", "f", "e", "\"", "}", "]", "}">>

\* json.loads on the documents above; every other text that starts with '{'
\* here is not JSON and raises JSONDecodeError
json_documents ==
  {json_no_commands, json_one_command}

json_loads(text) ==
  IF text = json_no_commands
  THEN Plan("json", <<"n", "o", "t", "h", "i", "n", "g", " ", "t", "o", " ", "d", "o">>, <<>>, <<>>)
  ELSE Plan("json", <<>>, <<Step("bash", <<"l", "s">>, "safe")>>, <<>>)

\* _parse_llm_response
parse_llm_response(response_text) ==
  IF StartsWith(Strip(response_text), <<"{">>)
  THEN IF response_text \in json_documents
       THEN json_loads(response_text)
       ELSE Plan("fallback", <<"E", "x", "e", "c", "u", "t", "e", " ", "u", "s", "e", "r", " ", "c", "o", "m", "m", "a", "n", "d">>,
                 <<Step("bash", Strip(response_text), "safe")>>,
                 <<"E", "x", "e", "c", "u", "t", "i", "n", "g", " ", "u", "s", "e", "r", " ", "c", "o", "m", "m", "a", "n", "d", " ", "a", "s", " ", "i", "n", "t", "e", "r", "p", "r", "e", "t", "e", "d">>)
  ELSE LET scan == scan_lines(NewScan, SplitLines(Strip(response_text)))
       IN  Plan("scanner",
                IF scan.interpretation # <<>> THEN scan.interpretation
                ELSE <<"E", "x", "e", "c", "u", "t", "e", " ", "t", "h", "e", " ", "r", "e", "q", "u", "e", "s", "t", "e", "d", " ", "c", "o", "m", "m", "a", "n", "d">>,
                scan.commands,
                IF scan.explanation # <<>> THEN scan.explanation ELSE <<"C", "o", "m", "m", "a", "n", "d", " ", "w", "i", "l", "l", " ", "b", "e", " ", "e", "x", "e", "c", "u", "t", "e", "d", " ", "a", "s", " ", "r", "e", "q", "u", "e", "s", "t", "e", "d">>)

\* the requests a model is selected for:
\* "ls", "list files", "Git Push", "kill the server", "debug main.py", "deploy it", "copy a and b", "show standard output"
RouterCommands ==
  {<<"l", "s">>,
   <<"l", "i", "s", "t", " ", "f", "i", "l", "e", "s">>,
   <<"G", "i", "t", " ", "P", "u", "s", "h">>,
   <<"k", "i", "l", "l", " ", "t", "h", "e", " ", "s", "e", "r", "v", "e", "r">>,
   <<"d", "e", "b", "u", "g", " ", "m", "a", "i", "n", ".", "p", "y">>,
   <<"d", "e", "p", "l", "o", "y", " ", "i", "t">>,
   <<"c", "o", "p", "y", " ", "a", " ", "a", "n", "d", " ", "b">>,
   <<"s", "h", "o", "w", " ", "s", "t", "a", "n", "d", "a", "r", "d", " ", "o", "u", "t", "p", "u", "t">>}

\* ModelRouter.config: without default_model, with the default of
\* daemon/config.py, with the other registered models, with an unknown model
RouterConfigs ==
  {NoDefaultModel} \cup
  {[has_default |-> TRUE, default_model |-> m] :
     m \in available_models \cup {"gpt-4"}}

\* the response texts parsed: the JSON documents and
\* 'echo hi'
\* 'Commands:\n$ ls -la\n# pwd'
\* 'Interpretation: list\nBQBQBQbash\nls\nBQBQBQ\ndone'
\* '{ echo hi; }'
\* 'Explanation: listing\nls -la'
\* ' \n'
Responses ==
  {<<"e", "c", "h", "o", " ", "h", "i">>,
   <<"C", "o", "m", "m", "a", "n", "d", "s", ":", "\n", "$", " ", "l", "s", " ", "-", "l", "a", "\n", "#", " ", "p", "w", "d">>,
   <<"I", "n", "t", "e", "r", "p", "r", "e", "t", "a", "t", "i", "o", "n", ":", " ", "l", "i", "s", "t", "\n", "BQ", "BQ", "BQ", "b", "a", "s", "h", "\n", "l", "s", "\n", "BQ", "BQ", "BQ", "\n", "d", "o", "n", "e">>,
   <<"{", " ", "e", "c", "h", "o", " ", "h", "i", ";", " ", "}">>,
   <<"E", "x", "p", "l", "a", "n", "a", "t", "i", "o", "n", ":", " ", "l", "i", "s", "t", "i", "n", "g", "\n", "l", "s", " ", "-", "l", "a">>,
   <<" ", "\n">>,
   json_no_commands, json_one_command}

\* ModelRouter.select_model is called
call_select_model(config, command, large_context) ==
  /\ call' = [NoFnCall EXCEPT
                !.op = "select_model", !.config = config, !.command = command,
                !.large_context = large_context,
                !.model = select_model(config, command, large_context).model_name,
                !.score = select_model(config, command, large_context).complexity_score]
  /\ UNCHANGED <<user_preferences, config_vars, manager_vars, engine_vars,
                 executor_vars, disk_vars>>

\* ModelRouter._parse_llm_response is called
call_parse_llm_response(response_text) ==
  /\ call' = [NoFnCall EXCEPT
                !.op = "parse_llm_response", !.text = response_text,
                !.plan = parse_llm_response(response_text).commands,
                !.model = parse_llm_response(response_text).via]
  /\ UNCHANGED <<user_preferences, config_vars, manager_vars, engine_vars,
                 executor_vars, disk_vars>>

NextRouter ==
  \/ \E config \in RouterConfigs, command \in RouterCommands, large_context \in BOOLEAN :
        call_select_model(config, command, large_context)
  \/ \E response_text \in Responses : call_parse_llm_response(response_text)

SpecRouter == InitFresh /\ [][NextRouter]_vars

(***************************************************************************)
(* The preference store of several users: decisions are learned and a      *)
(* user's preferences are cleared.                                         *)
(***************************************************************************)

\* clear_user_preferences had it emptied the approval history
store_clear_user_preferences_all_history(store, user_id) ==
  [preferences |-> Remove(store.preferences, user_id),
   command_patterns |-> Remove(store.command_patterns, user_id),
   approval_history |-> <<>>]

\* UserPreferences.clear_user_preferences
store_clear_user_preferences(store, user_id) ==
  LET Kept(entry) == entry.user_id # user_id
  IN  [preferences |-> Remove(store.preferences, user_id),
       command_patterns |-> Remove(store.command_patterns, user_id),
       approval_history |-> SelectSeq(store.approval_history, Kept)]

\* the commands the users decide on: a command with a flag, and one whose head
\* token reads like the flag counter of the first
ClearedCommands ==
  {cmd_ls, <<"l", "s", "_", "f", "l", "a", "g", "_", "-", "l", "a", " ", "x">>}

\* UserPreferences.clear_user_preferences is called
call_clear_user_preferences(user_id) ==
  /\ user_preferences' = store_clear_user_preferences(user_preferences, user_id)
  /\ call' = [NoFnCall EXCEPT !.op = "clear_user_preferences", !.user_id = user_id,
                              !.learned = Len(user_preferences.approval_history)]
  /\ UNCHANGED disk_vars
  /\ PersistenceStep

\* the users learn decisions and clear their preferences
NextClear ==
  \/ \E u \in Users, c \in ClearedCommands, a \in BOOLEAN :
        call_store_learn_preference(u, c, a)
  \/ \E u \in Users : call_clear_user_preferences(u)

SpecClear == InitPreferences /\ [][NextClear]_vars

(***************************************************************************)
(* The validator as a function: validate_command is called on one step.    *)
(***************************************************************************)

\* the commands of the steps validated: each check of _validate_bash_command
\* fails alone on one of them and together with a later check on another
ValidatedCommands ==
  { <<"l", "s", " ", "-", "l", "a">>,
    <<"r", "m", " ", "-", "r", "f", " ", "/">>,
    <<"R", "M", " ", "-", "R", "F", " ", "/">>,
    <<"c", "u", "r", "l", " ", "x", " ", "|", " ", "s", "h">>,
    <<"l", "s", " ", "|", " ", "c", "u", "r", "l", " ", "x", " ", "|", " ", "s", "h">>,
    <<"r", "m", " ", "f", "i", "l", "e", ".", "t", "x", "t">>,
    <<"r", "m", " ", "/", "e", "t", "c", "/", "p", "a", "s", "s", "w", "d">>,
    <<"l", "s", " ", "/", "e", "t", "c", "/", "p", "a", "s", "s", "w", "d">>,
    <<"l", "s", " ", "/", "r", "o", "o", "t", " ", "|", " ", "r", "m", " ", "-", "r", "f", " ", "~">>,
    <<"l", "s", " ", "|", " ", "r", "m", " ", "-", "r", "f", " ", "~">>,
    <<"g", "i", "t", " ", "a", "d", "d", " ", ".">>,
    <<"m", "v", " ", "a", " ", "b">>,
    <<">", " ", "x">>,
    <<" ">>,
    <<"s", "u", "d", "o", " ", "l", "s">>,
    <<"s", "u", "d", "o", " ", "r", "m", " ", "x">>,
    <<"l", "s", " ", "/", "d", "e", "v", "/", "n", "u", "l", "l">>,
    <<"m", "k", "d", "i", "r", " ", "/", "b", "o", "o", "t", "/", "x">>,
    <<"c", "p", " ", "a", " ", "/", "v", "a", "r", "/", "l", "o", "g">>,
    <<"l", "s", ";", " ", "m", "k", "f", "s", ".", "e", "x", "t", "4", " ", "x">>,
    <<"e", "v", "a", "l", " ", "$", "(", "l", "s", ")">>,
    <<"l", "s", " ", ">", "/", "d", "e", "v", "/", "s", "d", "a">>,
    <<"c", "h", "m", "o", "d", " ", "7", "7", "7", " ", "/">>,
    <<"d", "o", "c", "k", "e", "r", " ", "p", "s">>,
    <<"g", "i", "t", " ", "s", "t", "a", "t", "u", "s">>,
    <<"l", "s", " ", "&", "&", " ", "r", "m", " ", "-", "r", "f", " ", "*">>,
    <<"p", "r", "i", "n", "t", "(", "1", ")">>,
    <<"i", "m", "p", "o", "r", "t", " ", "o", "s">>,
    <<"S", "E", "L", "E", "C", "T", " ", "1">>,
    <<"d", "r", "o", "p", " ", "t", "a", "b", "l", "e", " ", "t">> }

\* command_info['type'] and command_info['safety_level']
StepTypes == {"bash", "python", "sql", "powershell"}

SafetyLevels == {"safe", "moderate", "destructive"}

\* CommandValidator.validate_command is called
call_validate_command(command_info) ==
  /\ call' = [NoFnCall EXCEPT !.op = "validate_command",
                              !.command = command_info.command,
                              !.type = command_info.type,
                              !.safety_level = command_info.safety_level,
                              !.validation = validate_command(command_info)]
  /\ UNCHANGED <<user_preferences, config_vars, manager_vars, engine_vars,
                 executor_vars, disk_vars>>

NextValidator ==
  \E c \in ValidatedCommands, t \in StepTypes, s \in SafetyLevels :
     call_validate_command(Step(t, c, s))

SpecValidator == InitPreferences /\ [][NextValidator]_vars

(***************************************************************************)
(* The job engine while time passes: the approval timeout elapses on       *)
(* pending jobs.                                                           *)
(***************************************************************************)

NextTimed ==
  \/ Next
  \/ Tick

SpecTimed == InitPreferences /\ [][NextTimed]_vars

(***************************************************************************)
(* One job from its submission to its end, through the approve endpoint    *)
(* when it needs approval and through CommandExecutor.execute step by      *)
(* step, on an event loop that is fair to its coroutines.                  *)
(***************************************************************************)

\* a step of the handler of an accepted approve/reject request
RequestStep ==
  \E r \in 1..Len(reqs) :
     \/ approve_set_approved(r)
     \/ approve_learn(r)
     \/ approve_dispatch(r)
     \/ approve_set_rejected(r)
     \/ approve_reject_result(r)
     \/ approve_broadcast(r)
     \/ approve_return(r)

\* a step of an execute_command task: its own statements, the return or the
\* exception of the model call, and the steps of CommandExecutor.execute with
\* the exit or the deadline of the subprocess awaited
TaskStep ==
  \E t \in 1..Len(tasks) :
     \/ exec_start(t)
     \/ exec_progress_10(t)
     \/ \E o \in LlmOutcomes : llm_returns(t, o)
     \/ exec_progress_30(t)
     \/ exec_progress_40(t)
     \/ \E p \in Plans : execute_begin(t, p)
     \/ execute_validate(t)
     \/ \E ok \in BOOLEAN : execute_bash_command(t, ok)
     \/ \E ok \in BOOLEAN : execute_python_command(t, ok)
     \/ execute_sql_command(t)
     \/ \E rc \in ReturnCodes : process_communicate(t, rc)
     \/ bash_timeout(t)
     \/ python_timeout(t)
     \/ execute_collect(t)
     \/ execute_finish(t)
     \/ execute_return(t)
     \/ exec_progress_90(t)
     \/ exec_set_completed(t)
     \/ exec_set_result(t)
     \/ exec_progress_100(t)
     \/ exec_set_failed(t)
     \/ exec_set_error(t)
     \/ exec_log_error(t)
     \/ exec_broadcast(t)

NextRun ==
  \/ \E u \in EngineUsers, c \in EngineCommands : submit_first(u, c)
  \/ \E j \in 1..MaxJobs, a \in BOOLEAN, m \in BOOLEAN : approve_begin(j, a, m)
  \/ RequestStep
  \/ TaskStep
  \/ \E k \in 1..MaxPlanLen : orphan_exits(k)

\* The event loop resumes every coroutine that is ready: the handler of an
\* accepted request and the background task each take their next step.  The
\* model call returns or raises, and the subprocess awaited exits or runs
\* into its deadline (asyncio.wait_for): these are steps of the task.
SpecRunFair ==
  /\ InitExecution
  /\ [][NextRun]_vars
  /\ WF_vars(RequestStep)
  /\ WF_vars(TaskStep)

(***************************************************************************)
(* Properties of the job engine, under Spec.                               *)
(***************************************************************************)

TerminalStatuses == {"completed", "failed", "rejected"}

\* the edges of the job lifecycle
StatusEdges ==
  {<<"pending", "approved">>, <<"pending", "rejected">>, <<"approved", "executing">>,
   <<"executing", "completed">>, <<"executing", "failed">>}

\* C1: every step that changes a job's status follows an edge of the
\* lifecycle, and a job is registered as pending or approved; so a completed,
\* failed or rejected job keeps its status
C1_StatusFollowsEdges ==
  [][/\ \A j \in 1..Len(jobs) :
          jobs'[j].status # jobs[j].status =>
            /\ <<jobs[j].status, jobs'[j].status>> \in StatusEdges
            /\ jobs[j].status \notin TerminalStatuses
     /\ \A j \in (Len(jobs) + 1)..Len(jobs') : jobs'[j].status \in {"pending", "approved"}]_vars

\* a job approved by the user has completed and an auto-approved one has failed
C1_Witness ==
  \E j, k \in 1..Len(jobs) :
     /\ jobs[j].status = "completed"
     /\ jobs[j].requires_approval
     /\ jobs[k].status = "failed"
     /\ ~jobs[k].requires_approval

\* the accepted approve requests of job j
AcceptedApprovals(j) == {r \in 1..Len(reqs) : reqs[r].job = j /\ reqs[r].approved}

\* the execution tasks of job j
TasksOf(j) == {t \in 1..Len(tasks) : tasks[t].job = j}

\* C2: a job has an execution task, and is executing, only if it was
\* auto-approved at submission or an approve request for it was accepted and
\* has marked it approved; a pending or rejected job has no execution task
C2_ExecutionOnlyAfterApproval ==
  \A j \in 1..Len(jobs) :
     /\ (TasksOf(j) # {} \/ jobs[j].status = "executing") =>
          \/ ~jobs[j].requires_approval
          \/ /\ AcceptedApprovals(j) # {}
             /\ jobs[j].approved_by = jobs[j].user_id
     /\ jobs[j].status = "executing" => \E t \in TasksOf(j) : tasks[t].pc # "queued"
     /\ jobs[j].status \in {"pending", "rejected"} => TasksOf(j) = {}

\* one job executes after its approval by the user while another stays rejected
C2_Witness ==
  \E j, k \in 1..Len(jobs) :
     /\ jobs[j].status = "executing"
     /\ jobs[j].requires_approval
     /\ AcceptedApprovals(j) # {}
     /\ jobs[k].status = "rejected"

\* C7: for every job at most one approve/reject request is accepted and at
\* most one execution task is created, and a request refused as not pending
\* leaves the jobs and the tasks as they were
C7_OneAcceptedRequest ==
  [][/\ \A j \in 1..Len(jobs') :
          /\ Cardinality({r \in 1..Len(reqs') : reqs'[r].job = j}) <= 1
          /\ Cardinality({t \in 1..Len(tasks') : tasks'[t].job = j}) <= 1
     /\ http_response'.code = 400 =>
          /\ http_response'.detail = "Job is not pending approval"
          /\ jobs' = jobs
          /\ tasks' = tasks
          /\ reqs' = reqs]_vars

\* a second request for a job is refused while the accepted one has not
\* returned yet
C7_Witness ==
  /\ http_response.code = 400
  /\ \E r \in 1..Len(reqs) :
        /\ reqs[r].job = http_response.job
        /\ reqs[r].pc = "sending"

\* C8 as stated: a step leaves a completed, failed or rejected job as it is
C8_TerminalJobUnchanged ==
  [][\A j \in 1..Len(jobs) :
        jobs[j].status \in TerminalStatuses => jobs'[j] = jobs[j]]_vars

\* C9: every step leaves the progress of every job within 0..100 and does
\* not lower it
C9_ProgressMonotonic ==
  [][\A j \in 1..Len(jobs') :
        /\ jobs'[j].progress \in 0..100
        /\ j <= Len(jobs) => jobs'[j].progress >= jobs[j].progress]_vars

\* a job is completed at 100 and another has failed after its progress updates
C9_Witness ==
  \E j, k \in 1..Len(jobs) :
     /\ jobs[j].status = "completed"
     /\ jobs[j].progress = 100
     /\ jobs[k].status = "failed"
     /\ jobs[k].progress = 40

\* C10 as stated: a pending job has a pending approval of its command for
\* its user in the approval manager's table
C10_PendingApprovalCreated ==
  \A j \in 1..Len(jobs) :
     jobs[j].status = "pending" =>
       \E i \in DOMAIN pending_approvals :
          /\ pending_approvals[i].command = jobs[j].command
          /\ pending_approvals[i].user_id = jobs[j].user_id

(***************************************************************************)
(* Properties of requires_approval, under SpecDecision.                    *)
(***************************************************************************)

\* the last call was requires_approval
DecisionMade == last_call.op = "requires_approval"

\* the risk level assessed for the last call's command
AssessedLevel == risk_assessment(last_call.command, last_call.context).level

\* the preference looked up for the last call
LookedUp == get_command_preference(user_preferences, last_call.user_id, last_call.command)

\* the last call raised inside the risk classifier or in the preference lookup
RaisedInside == ~last_call.context.is_dict \/ last_call.user_id = UnhashableUser

\* C3: a call for a command assessed high or critical returns true
C3_HighRiskRequiresApproval ==
  (DecisionMade /\ AssessedLevel \in {"high", "critical"}) => last_call.ok = TRUE

\* a critical command is submitted by a user whose preference for it is
\* always_approve
C3_Witness ==
  /\ DecisionMade
  /\ AssessedLevel = "critical"
  /\ LookedUp.present
  /\ LookedUp.always_approve
  /\ last_call.ok = TRUE

\* C4 as stated, for the calls in which nothing raises: the call returns
\* false exactly when (auto_approve_safe, risk safe, no deny preference) or
\* (always_approve preference, risk neither high nor critical)
C4_FalseInExactlyTwoCases ==
  (DecisionMade /\ ~RaisedInside) =>
    (last_call.ok = FALSE <=>
       \/ /\ auto_approve_safe
          /\ AssessedLevel = "safe"
          /\ ~(LookedUp.present /\ LookedUp.always_deny)
       \/ /\ LookedUp.present
          /\ LookedUp.always_approve
          /\ AssessedLevel \notin {"high", "critical"})

\* C5 as stated: a call in which the risk classifier or the preference
\* lookup raises returns true
C5_FailClosed == (DecisionMade /\ RaisedInside) => last_call.ok = TRUE

(***************************************************************************)
(* Properties of the approval manager, under SpecApproval.                 *)
(***************************************************************************)

\* C6 as stated: at most one response is applied for an approval id
C6_AtMostOneResponseApplied ==
  \A i \in DOMAIN decisions : Len(decisions[i]) <= 1

(***************************************************************************)
(* Approval listing and expiry                                             *)
(***************************************************************************)

\* C11: every entry returned by get_pending_approvals, with or without a user
\* filter, has expires_at strictly later than the time of the call.
C11_ListedNotExpired ==
  last_call.op = "get_pending_approvals" =>
    \A e \in last_call.listed : e.expires_at > last_call.at

\* ids of the requests whose timeout elapses within the modelled time
ExpiringIds ==
  {<<t, hash_mod_1000(c)>> : t \in 0..(MaxTime - ApprovalTimeout), c \in RequestCommands}

\* C12: a request that stays in the pending table is eventually removed from it
\* once its timeout has elapsed, and the timer of a request that was answered
\* (its id is no longer pending) changes neither the table nor the decisions.
C12_TimeoutEvicts ==
  /\ \A i \in ExpiringIds :
       (i \in DOMAIN pending_approvals) ~> (i \notin DOMAIN pending_approvals)
  /\ [][\A k \in 1..Len(timers) :
          (cleanup_expired_approval(k) /\ timers[k].id \notin DOMAIN pending_approvals)
            => (pending_approvals' = pending_approvals /\ decisions' = decisions)]_vars

\* the only call made is one request, and its timer has evicted the entry
C12_Witness ==
  /\ Len(timers) = 1
  /\ timers[1].fired
  /\ pending_approvals = EmptyDict
  /\ decisions = EmptyDict
  /\ last_call.op = "request_approval"

(***************************************************************************)
(* Plan execution                                                          *)
(***************************************************************************)

\* execute has been called, for the job RunJob
Called == run.pc # "idle"

RunJob == tasks[run.task].job

StepsOfRun == 1..Len(run.plan)

\* the call has built its CommandResult
Finished == run.pc \in {"done", "returned"}

\* C13: when a step of a Job's plan fails validation, no step of the plan is
\* executed and the Job does not end Completed.
C13_NoStepUnlessAllValid ==
  (Called /\ \E i \in StepsOfRun : run.steps[i].validated = "invalid") =>
     /\ \A i \in StepsOfRun : ~run.steps[i].executed /\ run.steps[i].proc = "none"
     /\ jobs[RunJob].status # "completed"

MentionsTimeout(error) ==
  error \in {"Command timed out after N seconds", "Python command timed out after N seconds"}

\* C14: when a step of a Job's plan has recorded exit code 124, the Job is never
\* Completed, and once its task has ended it is Failed with an error that
\* mentions the timeout.
C14_TimeoutFailsJob ==
  (Called /\ \E i \in StepsOfRun : run.steps[i].result.exit_code = 124) =>
     /\ jobs[RunJob].status # "completed"
     /\ tasks[run.task].pc = "done" =>
          jobs[RunJob].status = "failed" /\ MentionsTimeout(jobs[RunJob].error)

\* the tasks whose model invocation raised, until the task ends
RaisedTasks == {t \in 1..Len(tasks) : tasks[t].llm = "raise"}

\* C15: when the model invocation raises, the Job goes from Executing to Failed,
\* the captured error is stored on the Job, no step is executed, and the
\* job_update published at the end of the task carries the Failed status.
C15_ModelFailureFailsJob ==
  /\ [](\A t \in RaisedTasks :
          /\ tasks[t].pc \in {"l288", "l289", "l290", "l293"}
          /\ ~Called
          /\ tasks[t].pc = "l288" => jobs[tasks[t].job].status = "executing"
          /\ tasks[t].pc # "l288" => jobs[tasks[t].job].status = "failed"
          /\ tasks[t].pc \in {"l290", "l293"} =>
               jobs[tasks[t].job].error = "model invocation failed")
  /\ [][\A t \in RaisedTasks :
          tasks'[t].pc = "done" =>
            /\ jobs'[tasks[t].job].status = "failed"
            /\ jobs'[tasks[t].job].error = "model invocation failed"
            /\ events'[tasks[t].job] =
                 Append(events[tasks[t].job],
                        [type |-> "job_update", status |-> "failed",
                         progress |-> jobs[tasks[t].job].progress])]_vars

\* the task of a job whose model invocation raised has ended: the job is Failed
\* and the update was published
C15_Witness ==
  \E t \in 1..Len(tasks) :
    /\ tasks[t].pc = "done"
    /\ jobs[tasks[t].job].status = "failed"
    /\ jobs[tasks[t].job].error = "model invocation failed"
    /\ ~Called
    /\ events[tasks[t].job] # <<>>

\* C16: a step that recorded exit code 124 has no subprocess still running.
C16_TimedOutProcessTerminated ==
  Called =>
    \A i \in StepsOfRun :
      run.steps[i].result.exit_code = 124 => run.steps[i].proc # "running"

\* C17: after a failed step declared destructive no later step of the plan is
\* validated or run; after a failed step that is not declared destructive the
\* next step has been processed by the time execute returns.
C17_DestructiveFailureStops ==
  Called =>
    \A i \in StepsOfRun :
      (run.steps[i].executed /\ ~run.steps[i].result.success) =>
         IF run.plan[i].safety_level = "destructive"
         THEN \A k \in StepsOfRun : k > i => run.steps[k] = NewStepState
         ELSE (Finished /\ i < Len(run.plan)) => run.steps[i + 1].validated # "none"

\* a destructive first step failed and execute returned without touching the
\* second step
C17_Witness ==
  /\ run.pc = "returned"
  /\ Len(run.plan) = 2
  /\ run.plan[1].safety_level = "destructive"
  /\ run.steps[1].executed
  /\ ~run.steps[1].result.success
  /\ run.steps[2] = NewStepState

\* every step of the plan passed validation and ran with exit code 0
AllStepsSucceeded ==
  \A i \in StepsOfRun :
    /\ run.steps[i].validated = "valid"
    /\ run.steps[i].executed
    /\ run.steps[i].result.exit_code = 0

\* C18: the CommandResult of execute has success = TRUE exactly when every step
\* passed validation and ran with exit code 0, and exit_code 0 then, 1 otherwise.
C18_SuccessIffAllSteps ==
  Finished =>
    /\ run.result.success <=> AllStepsSucceeded
    /\ run.result.exit_code = IF AllStepsSucceeded THEN 0 ELSE 1

\* execute returned success for a plan of two steps
C18_Witness ==
  /\ run.pc = "returned"
  /\ Len(run.plan) = 2
  /\ run.result.success
  /\ run.result.exit_code = 0

\* the shell steps whose command contains a hardening substring
HardenedSteps ==
  {s \in StepPool :
     s.type = "bash" /\ \E p \in sandbox_dangerous_patterns : Contains(s.command, p)}

\* C19: no subprocess is spawned for a shell step whose command contains a
\* hardening substring, under every configuration, and the step is recorded as
\* failed.
C19_HardenedNeverSpawned ==
  Called =>
    \A i \in StepsOfRun :
      run.plan[i] \in HardenedSteps =>
        /\ run.steps[i].proc = "none"
        /\ run.steps[i].executed => ~run.steps[i].result.success

\* the steps whose leading token is in the allow list and whose command
\* contains no blocked substring
AllowListedSteps ==
  {s \in StepPool :
     /\ first_word(Words(s.command)) \in allowed_commands
     /\ ~\E b \in blocked_commands : Contains(s.command, b)}

\* C20: every step, of any kind, that validation accepts has its leading token
\* in the allow list and contains no blocked substring.
C20_ValidStepsAllowListed ==
  Called =>
    \A i \in StepsOfRun :
      run.steps[i].validated = "valid" => run.plan[i] \in AllowListedSteps

(***************************************************************************)
(* The risk classifier.                                                    *)
(***************************************************************************)

Assessed == call.op = "assess_command_risk"

\* the four sub-scores of a command in a context, in the order base, pattern,
\* context, path
SubScores(command, context) ==
  <<assess_base_command_risk(command), assess_pattern_risk(command),
    assess_context_risk(command, context), assess_path_risk(command)>>

Total(scores) == scores[1] + scores[2] + scores[3] + scores[4]

Largest(scores) == SetMax({scores[k] : k \in 1..4})

\* C21: the score of the report assess_command_risk returns for a command and a
\* context (a dict) is the maximum of the base, pattern, context and path
\* sub-scores, never their sum, and the reported level is the name of that score.
C21_ScoreIsMax ==
  Assessed =>
    /\ call.report.level = risk_level_name(call.report.score)
    /\ call.context.is_dict =>
         LET scores == SubScores(call.command, call.context)
         IN  /\ call.report.score = Largest(scores)
             /\ Total(scores) # Largest(scores) => call.report.score # Total(scores)

\* a command with several signals has been assessed: the sum of its sub-scores
\* is larger than the largest of them
C21_Witness ==
  /\ Assessed
  /\ call.context.is_dict
  /\ Total(SubScores(call.command, call.context)) > call.report.score
  /\ call.report.score = 4
  /\ call.report.level = "critical"

\* C22: every command that begins with sudo is assessed (in a context that is
\* a dict) at level high or critical, whatever command follows the prefix.
C22_SudoAtLeastHigh ==
  Assessed /\ call.context.is_dict /\ StartsWith(call.command, <<"s", "u", "d", "o", " ">>) =>
    call.report.level \in {"high", "critical"}

(***************************************************************************)
(* Learned preferences.                                                    *)
(***************************************************************************)

\* the fingerprint entry the store holds for a user and a command, if any
HasEntry(user_id, command) ==
  /\ user_id \in DOMAIN user_preferences.preferences
  /\ hash_command(command) \in DOMAIN user_preferences.preferences[user_id]

EntryOf(user_id, command) == user_preferences.preferences[user_id][hash_command(command)]

\* the user's counters for the head token of a command
Counters(user_id, command) ==
  Get(Get(user_preferences.command_patterns, user_id, EmptyDict),
      extract_main_command(command), [approved |-> 0, rejected |-> 0, total |-> 0])

\* C23: when the decision a user has learned for a command is a denial,
\* requires_approval for that user and command returns true, even when the
\* command's risk is safe and auto_approve_safe is on.
C23_LearnedDenialPrompts ==
  (/\ last_call.op = "requires_approval"
   /\ HasEntry(last_call.user_id, last_call.command)
   /\ ~EntryOf(last_call.user_id, last_call.command).approved)
  => last_call.ok

\* the last lookup fell back to the pattern index, and nothing has been
\* learned since
LookedUpByPattern ==
  /\ call.op = "get_command_preference"
  /\ call.learned = Len(user_preferences.approval_history)
  /\ ~HasEntry(call.user_id, call.command)

\* C24: a lookup that falls back to the pattern index answers from the user's
\* counters for the head token alone: with total >= 3 it yields always_approve
\* when approved/total >= 0.8 (confidence approved/total) and always_deny when
\* approved/total <= 0.2, and it yields none when total < 3 or the rate lies
\* strictly between.
C24_PatternThresholds ==
  LookedUpByPattern =>
    LET n == Counters(call.user_id, call.command)
    IN  /\ (n.total >= 3 /\ 10 * n.approved >= 8 * n.total) =>
             /\ call.pref.present /\ call.pref.always_approve /\ ~call.pref.always_deny
             /\ call.confidence[1] * n.total = n.approved * call.confidence[2]
        /\ (n.total >= 3 /\ 10 * n.approved <= 2 * n.total) =>
             call.pref.present /\ call.pref.always_deny /\ ~call.pref.always_approve
        /\ (n.total < 3 \/ (10 * n.approved < 8 * n.total /\ 10 * n.approved > 2 * n.total))
             => ~call.pref.present
        /\ (n.total = 3 /\ n.approved = 3) => call.confidence = <<3, 3>>
        /\ (n.total = 2 /\ n.approved = 2) => call.pref = NoPreference

\* three approvals of "rm a.txt" and nothing else learned on rm: the lookup of
\* "rm file.txt" yields always_approve with confidence 1
C24_Witness ==
  /\ LookedUpByPattern
  /\ call.command = cmd_rm
  /\ Counters(call.user_id, call.command).total = 3
  /\ Counters(call.user_id, call.command).approved = 3
  /\ call.pref.always_approve
  /\ call.confidence[1] = call.confidence[2]

\* C25: when the decisions a user has learned for a head token give total >= 3
\* with approval rate >= 0.8, every command of that user with that head token
\* whose risk is not high or critical is auto-approved: requires_approval
\* returns false, whichever commands the decisions were learned on.
C25_LearnedPatternAutoApproves ==
  (/\ last_call.op = "requires_approval"
   /\ Counters(last_call.user_id, last_call.command).total >= 3
   /\ 10 * Counters(last_call.user_id, last_call.command).approved
        >= 8 * Counters(last_call.user_id, last_call.command).total
   /\ risk_assessment(last_call.command, last_call.context).level \notin {"high", "critical"})
  => ~last_call.ok

(***************************************************************************)
(* The preference files.                                                   *)
(***************************************************************************)

\* C27: after import_preferences has read the exported document, the store
\* holds for that user exactly the exported fingerprint preferences and pattern
\* counters: nothing missing, nothing extra, no counter different.
C27_ImportReproducesExport ==
  call.op = "import_preferences" =>
    /\ user_preferences.preferences[call.user_id] = export_file.preferences
    /\ user_preferences.command_patterns[call.user_id] = export_file.patterns

\* C28: the preferences file on disk is at every point a complete document
\* (the previous one or the new one), or does not exist yet.
C28_FileNeverPartial ==
  preferences_file.state \in {"absent", "complete"}

\* C29: the approval history the store keeps never has more than the limit of
\* entries.
C29_HistoryBounded ==
  Len(user_preferences.approval_history) <= HistoryLimit

(***************************************************************************)
(* The model router.                                                       *)
(***************************************************************************)

Parsed == call.op = "parse_llm_response"

\* a line of the text opens a section or a fence of the line scanner
Structured(text) ==
  \E k \in 1..Len(SplitLines(Strip(text))) :
    \E mark \in {section_marks[f] : f \in DOMAIN section_marks} :
      StartsWith(Strip(SplitLines(Strip(text))[k]), mark)

\* C26: a response that is neither valid JSON nor a structured or fenced text
\* block becomes a plan with exactly one bash step whose command is the whole
\* response text, marked safe; the plan is not empty.
C26_PlainTextWrapped ==
  (/\ Parsed
   /\ Strip(call.text) # <<>>
   /\ call.text \notin json_documents
   /\ ~Structured(call.text))
  => call.plan = <<Step("bash", Strip(call.text), "safe")>>

Selected == call.op = "select_model"

\* the model of the tier of a complexity score
TierOf(score) ==
  IF score < 3 THEN "titan-text-lite"
  ELSE IF score < 7 THEN "claude-3-haiku"
  ELSE "claude-3.5-sonnet"

\* C30: select_model returns the configured default model when one is
\* configured and is in the model registry; otherwise the model of the tier of
\* the complexity score: below 3 the small model, from 3 to 6 the balanced
\* model, from 7 the strongest model.
C30_DefaultOrTier ==
  Selected =>
    /\ call.score = analyze_complexity(call.command, call.large_context)
    /\ IF call.config.has_default /\ call.config.default_model \in available_models
       THEN call.model = call.config.default_model
       ELSE call.model = TierOf(call.score)

\* a default that is not in the registry is configured and the request scores
\* 7: the strongest model is selected
C30_Witness ==
  /\ Selected
  /\ call.config.has_default
  /\ call.config.default_model \notin available_models
  /\ call.score = 7
  /\ call.model = "claude-3.5-sonnet"

(***************************************************************************)
(* Properties of the job engine's notifications and learning, under Spec.  *)
(***************************************************************************)

\* no handler is at work on job j: its approve requests have returned and
\* its execution tasks have ended
Settled(j) ==
  /\ \A r \in 1..Len(reqs) : reqs[r].job = j => reqs[r].pc = "done"
  /\ \A t \in TasksOf(j) : tasks[t].pc = "done"

\* the statuses job j was given, from its log
StatusesLogged(j) ==
  {jobs[j].logs[i].status : i \in {k \in 1..Len(jobs[j].logs) : jobs[j].logs[k].kind = "status"}}

\* the statuses the job_update messages of job j carried
StatusesPublished(j) == {events[j][i].status : i \in 1..Len(events[j])}

\* C31 as stated: once the handlers at work on a job have finished, every
\* status the job was given is in its log and was carried by a job_update
\* message sent to the subscribers
C31_StateChangesPublished ==
  \A j \in 1..Len(jobs) :
     Settled(j) =>
       /\ jobs[j].status \in StatusesLogged(j)
       /\ StatusesLogged(j) \subseteq StatusesPublished(j)

\* the approve request r has passed the lines that record its decision
\* (lines 156-159) and has not returned yet
DecisionHandled(r) == reqs[r].pc \in {"l162", "l165", "l168", "sending"}

\* C32 as stated: with learning enabled, once an approve or reject request
\* with remember has handled its decision, a lookup for the job's user and
\* command finds that decision
C32_RememberedDecisionFound ==
  \A r \in 1..Len(reqs) :
     (DecisionHandled(r) /\ reqs[r].remember /\ learn_preferences) =>
       LET job == jobs[reqs[r].job]
           found == get_command_preference(user_preferences, job.user_id, job.command)
       IN  /\ found.present
           /\ found.approved = reqs[r].approved

(***************************************************************************)
(* Properties of clear_user_preferences, under SpecClear.                  *)
(***************************************************************************)

\* the history entries of user v, in order
HistoryOf(store, v) ==
  LET Mine(entry) == entry.user_id = v
  IN  SelectSeq(store.approval_history, Mine)

\* user v has nothing in the store
Absent(store, v) ==
  /\ v \notin DOMAIN store.preferences
  /\ v \notin DOMAIN store.command_patterns
  /\ HistoryOf(store, v) = <<>>

\* user v has the same preferences, counters and history in both stores
SameFor(old, new, v) ==
  /\ (v \in DOMAIN new.preferences) = (v \in DOMAIN old.preferences)
  /\ Get(new.preferences, v, EmptyDict) = Get(old.preferences, v, EmptyDict)
  /\ (v \in DOMAIN new.command_patterns) = (v \in DOMAIN old.command_patterns)
  /\ Get(new.command_patterns, v, EmptyDict) = Get(old.command_patterns, v, EmptyDict)
  /\ HistoryOf(new, v) = HistoryOf(old, v)

\* C33: a call of clear_user_preferences(u) leaves u without fingerprint
\* preferences, pattern counters and history entries, and leaves those of
\* every other user as they were
C33_ClearOnlyThatUser ==
  [][call'.op = "clear_user_preferences" =>
       /\ Absent(user_preferences', call'.user_id)
       /\ \A v \in Users \ {call'.user_id} :
             SameFor(user_preferences, user_preferences', v)]_vars

\* u1 was cleared of its entries while u2 keeps preferences, counters and
\* history
C33_Witness ==
  /\ call.op = "clear_user_preferences"
  /\ call.user_id = "u1"
  /\ call.learned > Len(user_preferences.approval_history)
  /\ "u2" \in DOMAIN user_preferences.preferences
  /\ "u2" \in DOMAIN user_preferences.command_patterns
  /\ Len(HistoryOf(user_preferences, "u2")) >= 2

\* the number of history entries of user v whose command has the head token
DecisionsOn(store, v, token) ==
  LET Counted(entry) == entry.user_id = v /\ extract_main_command(entry.command) = token
  IN  Len(SelectSeq(store.approval_history, Counted))

\* the head tokens of the commands user v has decisions on
HeadTokens(store, v) ==
  {extract_main_command(store.approval_history[i].command) :
     i \in {k \in 1..Len(store.approval_history) : store.approval_history[k].user_id = v}}

\* the counters hold: approved + rejected = total, none negative
CountersAddUp(entry) ==
  /\ entry.approved >= 0
  /\ entry.rejected >= 0
  /\ entry.approved + entry.rejected = entry.total

\* C37 as stated: every pattern counter of every user adds up, and the total
\* of a head token is the number of decisions the user has learned on
\* commands with that head token since the user's last clear
C37_CountersMatchDecisions ==
  \A v \in Users :
     LET user_patterns == Get(user_preferences.command_patterns, v, EmptyDict)
     IN  /\ \A k \in DOMAIN user_patterns : CountersAddUp(user_patterns[k])
         /\ \A token \in HeadTokens(user_preferences, v) :
               Get(user_patterns, token, [approved |-> 0, rejected |-> 0, total |-> 0]).total
                 = DecisionsOn(user_preferences, v, token)

(***************************************************************************)
(* Properties of CommandExecutor.execute, under SpecExecution.             *)
(***************************************************************************)

\* execute is through with step i: validation refused it, or its handler
\* returned and the result was collected with the subprocess, if any, ended
\* or past its deadline
ThroughWith(i) ==
  \/ run.steps[i].validated = "invalid"
  \/ /\ run.steps[i].executed
     /\ run.steps[i].proc = "running" => run.steps[i].result.exit_code = 124

\* C34: execute handles the steps one after another in declared order: a
\* step is touched only when execute is through with every earlier step; a
\* subprocess exists only for a step validated as valid, and is spawned by the
\* step in hand right after its validation; a step that failed validation has
\* no subprocess, no result collected, and is recorded as a failure of the plan
C34_SequentialValidatedSpawn ==
  /\ [](Called =>
          \A i \in StepsOfRun :
             /\ run.steps[i] # NewStepState =>
                  /\ i <= run.i
                  /\ \A k \in 1..(i - 1) : ThroughWith(k)
             /\ (run.steps[i].proc # "none" \/ run.steps[i].executed) =>
                  run.steps[i].validated = "valid"
             /\ run.steps[i].validated = "invalid" =>
                  /\ run.steps[i].proc = "none"
                  /\ ~run.steps[i].executed
                  /\ ~run.overall_success)
  /\ [][\A i \in 1..Len(run.steps) :
          (run.steps[i].proc = "none" /\ run.steps'[i].proc # "none") =>
             /\ run.i = i
             /\ run.pc = "l53"
             /\ run.steps[i].validated = "valid"
             /\ ~run.steps[i].executed]_vars

\* the first step failed validation and was skipped, the second was validated,
\* spawned and collected
C34_Witness ==
  /\ run.pc = "returned"
  /\ Len(run.plan) = 2
  /\ run.steps[1].validated = "invalid"
  /\ run.steps[1].proc = "none"
  /\ run.steps[2].validated = "valid"
  /\ run.steps[2].proc = "exited"
  /\ run.steps[2].executed

(***************************************************************************)
(* Properties of the validator, under SpecValidator.                       *)
(***************************************************************************)

\* validate_command was called on a shell step
ShellStepValidated == call.op = "validate_command" /\ call.type = "bash"

\* the checks of a shell step, each by itself
BlockedFails == \E b \in blocked_commands : Contains(lower(call.command), lower(b))

DangerousFails ==
  \E k \in 1..Len(dangerous_patterns) : Search(dangerous_patterns[k], call.command, TRUE)

AllowListFails ==
  /\ validator_extract_main_command(call.command) # <<>>
  /\ validator_extract_main_command(call.command) \notin allowed_commands

ProtectedPathFails ==
  check_protected_paths(call.command) /\ call.safety_level # "destructive"

ExtremeFails ==
  call.safety_level = "destructive" /\ assess_destructive_risk(call.command) = "extreme"

Refused(reason, severity) ==
  call.validation = [valid |-> FALSE, reason |-> reason, severity |-> severity]

\* C35: on a shell step validate reports the first check that fails, in the
\* order blocked substring (high), dangerous pattern (high), leading token
\* outside the allow list (medium), protected path on a step not declared
\* destructive (high), extreme destructive pattern on a step declared
\* destructive (critical); a valid step that mentions a protected path is
\* declared destructive
C35_FirstFailingCheck ==
  (ShellStepValidated /\ Strip(call.command) # <<>>) =>
     /\ BlockedFails => Refused("Blocked command pattern", "high")
     /\ (~BlockedFails /\ DangerousFails) =>
          Refused("Dangerous command pattern detected", "high")
     /\ (~BlockedFails /\ ~DangerousFails /\ AllowListFails) =>
          Refused("Command not in allowlist", "medium")
     /\ (~BlockedFails /\ ~DangerousFails /\ ~AllowListFails /\ ProtectedPathFails) =>
          Refused("Access to protected path", "high")
     /\ (~BlockedFails /\ ~DangerousFails /\ ~AllowListFails /\ ~ProtectedPathFails
           /\ ExtremeFails) =>
          Refused("Extremely destructive command", "critical")
     /\ (call.validation.valid /\ check_protected_paths(call.command)) =>
          call.safety_level = "destructive"

\* a step outside the allow list that mentions a protected path was refused
\* for the allow list, with severity medium
C35_Witness ==
  /\ ShellStepValidated
  /\ AllowListFails
  /\ ProtectedPathFails
  /\ ~BlockedFails
  /\ ~DangerousFails
  /\ Refused("Command not in allowlist", "medium")

(***************************************************************************)
(* Properties of the approval manager's table, under SpecApproval.         *)
(***************************************************************************)

\* the entry of id i is in the table and its expiry has passed
ExpiredEntry(i) ==
  /\ i \in DOMAIN pending_approvals
  /\ now > pending_approvals[i].expires_at

\* C36: a response to an approval whose expiry has passed fails as expired,
\* removes the entry from the table and leaves the decisions and the
\* preference store as they were, whatever its approved and remember flags
C36_ExpiredResponseRecordsNothing ==
  [][\A i \in KnownIds, a \in BOOLEAN, m \in BOOLEAN :
        (ExpiredEntry(i) /\ process_approval_response(i, a, m)) =>
           /\ last_call'.ok = FALSE
           /\ last_call'.detail = "Approval request has expired"
           /\ i \notin DOMAIN pending_approvals'
           /\ decisions' = decisions
           /\ user_preferences' = user_preferences]_vars

\* with learning enabled, a response found its entry expired and removed it,
\* and nothing was learned or decided
C36_Witness ==
  /\ learn_preferences
  /\ last_call.op = "process_approval_response"
  /\ last_call.detail = "Approval request has expired"
  /\ last_call.id \notin DOMAIN pending_approvals
  /\ last_call.id \notin DOMAIN decisions
  /\ user_preferences = EmptyStore

\* C38 as stated: a request adds an entry under an id no tracked approval
\* has, so that the table grows by exactly one entry
C38_RequestAddsFreshEntry ==
  [][Len(timers') = Len(timers) + 1 =>
       /\ last_call'.id \notin DOMAIN pending_approvals
       /\ \A k \in 1..Len(timers) : timers[k].id # last_call'.id
       /\ Cardinality(DOMAIN pending_approvals') = Cardinality(DOMAIN pending_approvals) + 1
       /\ \A i \in DOMAIN pending_approvals : pending_approvals'[i] = pending_approvals[i]]_vars

(***************************************************************************)
(* Properties of pending jobs while time passes, under SpecTimed.          *)
(***************************************************************************)

\* the approval timeout has elapsed on job j
Overdue(j) == now > jobs[j].created_at + ApprovalTimeout

\* a handler of an approve/reject request for job j is setting its status
Answering(j) ==
  /\ cur[1] = "req"
  /\ reqs[cur[2]].job = j
  /\ reqs[cur[2]].pc \in {"l151", "l164"}

\* C39: a pending job changes its status only in the handler of an
\* approve/reject request for it, to approved or rejected, and a step in which
\* time passes leaves every job as it is; an approve request for a pending
\* job is accepted even when the approval timeout has elapsed, and an
\* accepted approve request that has dispatched has an execution task
C39_PendingLeavesOnlyByResponse ==
  /\ [][/\ \A j \in 1..Len(jobs) :
             (jobs[j].status = "pending" /\ jobs'[j].status # "pending") =>
                /\ Answering(j)
                /\ jobs'[j].status =
                     IF reqs[cur[2]].approved THEN "approved" ELSE "rejected"
        /\ now' # now => jobs' = jobs
        /\ \A j \in 1..Len(jobs), m \in BOOLEAN :
             (jobs[j].status = "pending" /\ Overdue(j) /\ approve_begin(j, TRUE, m)) =>
                /\ Len(reqs') = Len(reqs) + 1
                /\ http_response' = NoResponse]_vars
  /\ [](\A r \in 1..Len(reqs) :
          (reqs[r].approved /\ reqs[r].pc \in {"l168", "sending", "done"}) =>
             \E t \in TasksOf(reqs[r].job) : tasks[t].owner = r)

\* a job left pending past the approval timeout was approved then and is
\* executing, while another job is still pending past the timeout
C39_Witness ==
  \E r \in 1..Len(reqs), k \in 1..Len(jobs) :
     /\ reqs[r].approved
     /\ reqs[r].at > jobs[reqs[r].job].created_at + ApprovalTimeout
     /\ jobs[reqs[r].job].status = "executing"
     /\ jobs[k].status = "pending"
     /\ Overdue(k)

(***************************************************************************)
(* Progress of an approved job, under SpecRunFair.                         *)
(***************************************************************************)

====
